---- MODULE Spec2Model ----
(***************************************************************************)
(* TrendRadar: the size-bounded message splitter (BatchSender), the push   *)
(* gate (PushRecordManager), the notification dispatcher                   *)
(* (NotificationManager), the snapshot merger and increment detector and   *)
(* the keyword classification of the ranking engine (NewsRanking,          *)
(* NewsFilter).                                                            *)
(*                                                                         *)
(* Text is modelled by what the code looks at: a rendered message is the   *)
(* sequence of its parts with their UTF-8 byte lengths; a time of day is   *)
(* the sequence of its characters; a title or keyword is the sequence of   *)
(* its characters, upper and lower case kept apart.                        *)
(***************************************************************************)
EXTENDS Integers, Sequences, FiniteSets, TLC

VARIABLES
    \* ---- BatchSender.split_content_into_batches: arguments and result
    report_data,    \* [stats, new_titles, failed_ids]
    platform,       \* channel kind handed to the splitter
    update_info,    \* NoUpdate (None) or the byte length of latest_version
    max_bytes,      \* byte budget of the channel
    batches,        \* the returned list of message bodies
    split_pc,       \* "input" before the call, "done" after it
    \* ---- configuration (self.config), fixed during a run of the program
    push_window,    \* config["PUSH_WINDOW"]
    configured,     \* keys of the notifiers whose credentials are configured
    \* ---- environment
    clock,          \* get_beijing_time(): [day, tod], tod indexing ClockTimes
    record_files,   \* output/.push_records/push_record_<day>.json, by day
    \* ---- NotificationManager.send_notifications, per dispatch run
    pc,             \* "idle", "sending", "finishing", "returned", "raised"
    enabled,        \* enabled_notifiers, in registration order
    idx,            \* position of the loop over enabled_notifiers
    results,        \* the result map, channel key -> bool
    \* ---- what a call has done so far (observations, not program state)
    gate,           \* "none", "denied", "permitted": _check_push_window's answer
    sends,          \* channel key -> number of notifier.send invocations
    outcomes,       \* channel key -> what its send did
    begin,          \* [day, in_range, prior]: the call's start
    calls,          \* number of calls started
    succeeded_on,   \* days on which a call began, had a success and ended
    \* ---- NewsRanking: the day's snapshot files and the merge
    txt_files,            \* output/<day>/txt/*.txt, sorted by name
    current_platform_ids, \* the platform filter: [given, ids]
    all_results,          \* {platform_id: {title: {ranks}}}
    title_info,           \* {platform_id: {title: {first_time, last_time, count, ranks}}}
    read_pos,             \* files folded by read_all_today_titles so far
    new_titles,           \* [given, value]: detect_latest_new_titles' result
    processing,           \* [given, mode, results_to_process, all_news_are_new]
    \* ---- NewsFilter and NewsRanking.calculate_statistics
    frequency_words,      \* config/frequency_words.txt: groups of word lines
    word_groups,          \* NewsFilter.word_groups
    filter_words,         \* NewsFilter.filter_words
    results_to_process,   \* the considered records, in iteration order
    stat_groups,          \* calculate_statistics' local word_groups
    word_stats,           \* {group_key: {count, titles}}
    processed_titles,     \* the records already placed
    rank_pos,             \* records the loop has gone through
    rank_pc,              \* "idle", "loop" or "done"
    statistics,           \* the returned list of group statistics
    \* ---- NewsRanking._generate_statistics on its own
    gen_word_stats,       \* word_stats
    gen_rank_threshold,   \* self.rank_threshold
    gen_total_titles,     \* total_titles
    gen_stats,            \* the returned list of group statistics
    gen_pc,               \* "input" or "done"
    \* ---- NewsReporter.prepare_report_data
    prep_stats,           \* the argument stats
    prep_failed_ids,      \* the argument failed_ids
    new_news_list,        \* the argument new_news_list
    prep_mode,            \* the argument mode
    prepared,             \* the returned dict
    prep_pc,              \* "input" or "done"
    \* ---- PushRecordManager's constructor on a record directory
    record_dir,           \* the date parts of output/.push_records/push_record_*.json
    sweep_today,          \* get_beijing_time().date() as "%Y%m%d"
    sweep_retention,      \* self.retention_days
    swept_dir,            \* the directory after the constructor
    sweep_pc,             \* "input" or "done"
    \* ---- NewsReporter._save_summary_json on news_summary.json
    summary_file,         \* the file on disk
    summary_before,       \* the file on disk before the last call
    summary_batch,        \* current_batch of the last call
    summary_raised,       \* the exception the last call let through, or NoException
    summary_runs,         \* the number of calls so far
    \* ---- today's push record under concurrent runs of the program
    today_record,         \* the content of push_record_<today>.json
    writer_pc,            \* per run in record_push: "idle", "opened" or "done"
    check_pc,             \* the run in has_pushed_today: "idle" or "exists"
    check_started_pushed, \* a complete record was on disk when the check began
    check_seen,           \* the content the last check met
    check_result,         \* what the last check returned
    check_raised,         \* the exception the last check let through
    checks,               \* the number of checks finished
    got_seen,             \* the content the last get_push_record met
    got_record,           \* what the last get_push_record returned
    got_raised,           \* the exception the last get_push_record let through
    gets,                 \* the number of calls of get_push_record
    \* ---- one channel's send (FeishuNotifier.send, TelegramNotifier.send)
    send_report,          \* report_data
    send_platform,        \* the channel kind
    send_update,          \* update_info
    send_max_bytes,       \* the channel's batch size
    send_msgs,            \* batches: the messages the splitter returned
    send_i,               \* the loop index i
    send_started,         \* the indices whose request was issued, in order
    send_finished,        \* [msg, outcome] of the requests that ended, in order
    all_success,          \* all_success
    send_result,          \* what send returned: "none", "true" or "false"
    send_record,          \* today's push record as the manager leaves it
    send_pc,              \* "idle", "loop", "posting", "returned" or "done"
    \* ---- runs of the program whose send_notifications calls overlap
    run_window,           \* config["PUSH_WINDOW"], the same for every run
    run_now,              \* the time of day of the gate checks
    run_record,           \* today's push record file, shared by the runs
    run_pc,               \* per run: "idle", "sending", "finishing", "returned"
    run_results,          \* per run: the result map of its call
    run_contacted         \* the runs that have invoked a channel's send

splitVars == <<report_data, platform, update_info, max_bytes, batches, split_pc>>

dispatchVars ==
    <<push_window, configured, clock, record_files, pc, enabled, idx, results,
      gate, sends, outcomes, begin, calls, succeeded_on>>

mergeVars ==
    <<txt_files, current_platform_ids, all_results, title_info, read_pos,
      new_titles, processing>>

rankVars ==
    <<frequency_words, word_groups, filter_words, results_to_process,
      stat_groups, word_stats, processed_titles, rank_pos, rank_pc, statistics>>

genVars ==
    <<gen_word_stats, gen_rank_threshold, gen_total_titles, gen_stats, gen_pc>>

prepVars ==
    <<prep_stats, prep_failed_ids, new_news_list, prep_mode, prepared, prep_pc>>

sweepVars == <<record_dir, sweep_today, sweep_retention, swept_dir, sweep_pc>>

summaryVars ==
    <<summary_file, summary_before, summary_batch, summary_raised,
      summary_runs>>

checkVars ==
    <<check_pc, check_started_pushed, check_seen, check_result, check_raised,
      checks>>

getVars == <<got_seen, got_record, got_raised, gets>>

recordVars == <<today_record, writer_pc, checkVars, getVars>>

sendVars ==
    <<send_report, send_platform, send_update, send_max_bytes, send_msgs,
      send_i, send_started, send_finished, all_success, send_result,
      send_record, send_pc>>

runVars ==
    <<run_window, run_now, run_record, run_pc, run_results, run_contacted>>

vars ==
    <<splitVars, dispatchVars, mergeVars, rankVars, genVars, prepVars,
      sweepVars, summaryVars, recordVars, sendVars, runVars>>

(***************************************************************************)
(* Bounds of the model.                                                    *)
(***************************************************************************)
MaxGroups == 3         \* keyword groups in a report
VersionBytes == 5      \* byte length of update_info["latest_version"]
MaxDay == 1            \* calendar days after the first one
MaxCalls == 2          \* calls of send_notifications
MaxSnapshots == 3
MaxWordGroups == 2
MaxRecords == 3
MaxNews == 2
MaxNewNews == 3      \* snapshot files of the day

(***************************************************************************)
(* Generic helpers.                                                        *)
(***************************************************************************)
RECURSIVE SumBytes(_)
SumBytes(text) ==
    IF text = <<>> THEN 0 ELSE Head(text).bytes + SumBytes(Tail(text))

RECURSIVE Digits(_)
Digits(n) == IF n < 10 THEN 1 ELSE 1 + Digits(n \div 10)

SeqsUpTo(S, n) == UNION {[1..k -> S] : k \in 0..n}

(***************************************************************************)
(* BatchSender (src/src/notifiers/batch_sender.py).                        *)
(*                                                                         *)
(* A text is a sequence of parts [kind, idx, bytes]; str + str is \o and   *)
(* len(text.encode("utf-8")) is SumBytes.  Every part the builders return  *)
(* holds visible characters, so text.strip() is empty only for the empty   *)
(* text, and two texts that start with the header have equal strip() only  *)
(* when they are the same text.                                            *)
(***************************************************************************)
NoUpdate == [given |-> FALSE, latest_version |-> 0]

SafetyMargin == 500

Part(kind, i, bytes) == [kind |-> kind, idx |-> i, bytes |-> bytes]

MarkdownPlatforms == {"feishu", "dingtalk", "wework"}

\* sum(stat["count"] for stat in report_data["stats"])
RECURSIVE TotalNews(_)
TotalNews(stats) ==
    IF stats = <<>> THEN 0 ELSE Head(stats).count + TotalNews(Tail(stats))

\* _build_header: the title line (bold markup by channel kind) and the line
\* "gong N tiao pipei xinwen", N being the total of the groups' counts.
BuildHeader(rd, plat) ==
    LET d == Digits(TotalNews(rd.stats))
        b == IF plat \in MarkdownPlatforms THEN 51 + d
             ELSE IF plat = "telegram" THEN 54 + d
             ELSE 47 + d
    IN  <<Part("header", 0, b)>>

\* _build_footer: "\n", the update notice when update_info is given, and the
\* timestamp line in the channel's markup.
BuildFooter(upd, plat) ==
    LET notice == IF ~upd.given THEN 0
                  ELSE IF plat = "feishu" THEN 79 + upd.latest_version
                  ELSE 51 + upd.latest_version
        stamp  == IF plat = "feishu" THEN 51
                  ELSE IF plat = "telegram" THEN 38
                  ELSE 25
    IN  <<Part("footer", 0, notice + stamp)>>

\* _build_stat_section: the group's title line and one line per title; its
\* byte length is the rendered length carried by the report's group.
BuildStatSection(stats, i) == <<Part("stat", i, stats[i].bytes)>>

\* _build_new_titles_section
BuildNewTitlesSection(rd) == <<Part("new", 0, rd.new_titles)>>

\* _build_failed_section
BuildFailedSection(rd) == <<Part("failed", 0, rd.failed_ids)>>

\* mutant of FlushIfOver: the size check is lost, nothing is ever flushed
FlushIfOver_never(st, section, safe, header, footer) == st

\* mutant of FlushIfOver: the flushed message is not kept
FlushIfOver_drop(st, section, safe, header, footer) ==
    IF SumBytes(st[2]) + SumBytes(section) > safe /\ st[2] # <<>>
    THEN <<st[1], header>>
    ELSE st

\* "if current_size + size > safe_max_bytes and current_batch.strip()":
\* the state <<batches, current_batch>> after the check.
FlushIfOver(st, section, safe, header, footer) ==
    IF SumBytes(st[2]) + SumBytes(section) > safe /\ st[2] # <<>>
    THEN <<Append(st[1], st[2] \o footer), header>>
    ELSE st

\* the loop over report_data["stats"], from group i on
RECURSIVE SplitStats(_, _, _, _, _, _)
SplitStats(stats, i, st, safe, header, footer) ==
    IF i > Len(stats) THEN st
    ELSE IF stats[i].count <= 0
         THEN SplitStats(stats, i + 1, st, safe, header, footer)
         ELSE LET sec == BuildStatSection(stats, i)
                  f   == FlushIfOver(st, sec, safe, header, footer)
              IN  SplitStats(stats, i + 1, <<f[1], f[2] \o sec>>,
                             safe, header, footer)

SplitNew(rd, st, safe, header, footer) ==
    IF rd.new_titles > 0
    THEN LET sec == BuildNewTitlesSection(rd)
             f   == FlushIfOver(st, sec, safe, header, footer)
         IN  <<f[1], f[2] \o sec>>
    ELSE st

SplitFailed(rd, st) ==
    IF rd.failed_ids > 0 THEN <<st[1], st[2] \o BuildFailedSection(rd)>> ELSE st

SplitLast(st, header, footer) ==
    IF st[2] # header THEN Append(st[1], st[2] \o footer) ELSE st[1]

split_content_into_batches(rd, plat, upd, maxb) ==
    LET footer == BuildFooter(upd, plat)
        safe   == maxb - SumBytes(footer) - SafetyMargin
        header == BuildHeader(rd, plat)
        s1     == SplitStats(rd.stats, 1, <<<<>>, header>>, safe, header, footer)
        s2     == SplitNew(rd, s1, safe, header, footer)
        s3     == SplitFailed(rd, s2)
    IN  SplitLast(s3, header, footer)

\* ---- the inputs of the splitter
Platforms == {"feishu", "telegram", "ntfy"}
MaxBytesChoices == {100, 700}
SectionBytesChoices == {40, 120, 700}
StatChoices ==
    {[count |-> 0, bytes |-> 40]}
        \cup [count : {4, 6}, bytes : SectionBytesChoices]
UpdateChoices == {NoUpdate, [given |-> TRUE, latest_version |-> VersionBytes]}

SplitInit ==
    /\ report_data \in [stats : SeqsUpTo(StatChoices, MaxGroups),
                        new_titles : {0, 40, 120},
                        failed_ids : {0, 480, 520}]
    /\ platform \in Platforms
    /\ update_info \in UpdateChoices
    /\ max_bytes \in MaxBytesChoices
    /\ batches = <<>>
    /\ split_pc = "input"

Split ==
    /\ split_pc = "input"
    /\ batches' = split_content_into_batches(report_data, platform,
                                             update_info, max_bytes)
    /\ split_pc' = "done"
    /\ UNCHANGED <<report_data, platform, update_info, max_bytes>>
    /\ UNCHANGED <<dispatchVars, mergeVars, rankVars, genVars, prepVars,
                   sweepVars, summaryVars,
                   recordVars, sendVars, runVars>>

(***************************************************************************)
(* Times of day (src/src/core/push_record.py).  A time string is the       *)
(* sequence of its characters; a digit is its value and the other          *)
(* characters keep their ASCII order relative to the digits:               *)
(* ' ' < '0'..'9' < ':' < 'x'.  Python compares strings character by       *)
(* character, a proper prefix being smaller.                               *)
(***************************************************************************)
Space == 0 - 1
Colon == 10
Letter == 11

IsDigit(c) == c \in 0..9

RECURSIVE StrLE(_, _)
StrLE(a, b) ==
    IF a = <<>> THEN TRUE
    ELSE IF b = <<>> THEN FALSE
    ELSE IF Head(a) # Head(b) THEN Head(a) < Head(b)
    ELSE StrLE(Tail(a), Tail(b))

RECURSIVE LStrip(_)
LStrip(str) ==
    IF str # <<>> /\ Head(str) = Space THEN LStrip(Tail(str)) ELSE str

RECURSIVE RStrip(_)
RStrip(str) ==
    IF str # <<>> /\ str[Len(str)] = Space
    THEN RStrip(SubSeq(str, 1, Len(str) - 1)) ELSE str

Strip(str) == RStrip(LStrip(str))

\* str.split(":")
RECURSIVE SplitColon(_, _)
SplitColon(str, cur) ==
    IF str = <<>> THEN <<cur>>
    ELSE IF Head(str) = Colon THEN <<cur>> \o SplitColon(Tail(str), <<>>)
    ELSE SplitColon(Tail(str), Append(cur, Head(str)))

\* int(text) succeeds on optional blanks around a non-empty run of digits
IsInt(text) ==
    LET t == Strip(text) IN t # <<>> /\ \A i \in 1..Len(t) : IsDigit(t[i])

RECURSIVE DigitsValue(_, _)
DigitsValue(t, acc) ==
    IF t = <<>> THEN acc ELSE DigitsValue(Tail(t), acc * 10 + Head(t))

IntOf(text) == DigitsValue(Strip(text), 0)

\* f"{n:02d}"
Fmt02(n) == IF n < 10 THEN <<0, n>> ELSE <<n \div 10, n % 10>>

\* strftime("%H:%M")
HHMM(h, m) == Fmt02(h) \o <<Colon>> \o Fmt02(m)

\* PushRecordManager._normalize_time
_normalize_time(time_str) ==
    LET parts == SplitColon(Strip(time_str), <<>>)
    IN  IF Len(parts) # 2 THEN time_str
        ELSE IF ~(IsInt(parts[1]) /\ IsInt(parts[2])) THEN time_str
        ELSE LET hour   == IntOf(parts[1])
                 minute == IntOf(parts[2])
             IN  IF ~(0 <= hour /\ hour <= 23 /\ 0 <= minute /\ minute <= 59)
                 THEN time_str
                 ELSE HHMM(hour, minute)

\* mutant of is_in_time_range: the end of the window is excluded
is_in_time_range_open(start_time, end_time, now) ==
    /\ StrLE(_normalize_time(start_time), _normalize_time(now))
    /\ StrLE(_normalize_time(now), _normalize_time(end_time))
    /\ _normalize_time(now) # _normalize_time(end_time)

\* PushRecordManager.is_in_time_range, now being the current "%H:%M"
is_in_time_range(start_time, end_time, now) ==
    /\ StrLE(_normalize_time(start_time), _normalize_time(now))
    /\ StrLE(_normalize_time(now), _normalize_time(end_time))

(***************************************************************************)
(* The push record files (PushRecordManager).  The file of a day is        *)
(* Absent, or holds the record written by record_push.  The file system    *)
(* is taken to work: a write that is issued succeeds.                      *)
(***************************************************************************)
Days == 0..MaxDay
Absent == "absent"
PushedRecord == "pushed"
FileContents == {Absent, PushedRecord}

\* PushRecordManager.cleanup_old_records, run by the constructor
cleanup_old_records(files, today, retention_days) ==
    [d \in Days |-> IF today - d > retention_days THEN Absent ELSE files[d]]

\* mutant of has_pushed_today: the record is never found
has_pushed_today_never(files, today) == FALSE

\* PushRecordManager.has_pushed_today
has_pushed_today(files, today) ==
    IF files[today] = Absent THEN FALSE
    ELSE files[today] = PushedRecord

\* PushRecordManager.record_push
record_push(files, today) == [files EXCEPT ![today] = PushedRecord]

(***************************************************************************)
(* NotificationManager (src/src/notifiers/manager.py).                     *)
(***************************************************************************)
\* _register_notifiers: the keys, in registration order
NotifierKeys == <<"feishu", "dingtalk", "wework", "telegram", "email", "ntfy">>

KeySet == {NotifierKeys[i] : i \in 1..Len(NotifierKeys)}

ClockTimes == <<HHMM(8, 30), HHMM(9, 0), HHMM(18, 0), HHMM(18, 1)>>

Now == ClockTimes[clock.tod]

\* _check_push_window: <<allowed, record files after the call>>.  The
\* PushRecordManager is constructed, and sweeps old records, only when the
\* window is enabled.
_check_push_window(pw, files, today, now) ==
    IF ~pw.ENABLED THEN <<TRUE, files>>
    ELSE LET swept == cleanup_old_records(files, today, pw.RECORD_RETENTION_DAYS)
         IN  IF ~is_in_time_range(pw.START, pw.END, now) THEN <<FALSE, swept>>
             ELSE IF pw.ONCE_PER_DAY /\ has_pushed_today(swept, today)
                  THEN <<FALSE, swept>>
                  ELSE <<TRUE, swept>>

\* _get_enabled_notifiers
_get_enabled_notifiers(cfgd) ==
    LET is_configured(k) == k \in cfgd IN SelectSeq(NotifierKeys, is_configured)

\* mutant of AfterGate: the gate's answer is not honoured
AfterGate_ignored(allowed, en) == IF en = <<>> THEN "returned" ELSE "sending"

\* send_notifications, lines 81-90: where the call goes after the gate check
AfterGate(allowed, en) ==
    IF ~allowed THEN "returned"
    ELSE IF en = <<>> THEN "returned"
    ELSE "sending"

\* what a channel's send can do
SendOutcomes == {"true", "false", "raise"}

\* mutant of AfterSend: an exception of a channel leaves the loop and the call
AfterSend_propagate(outcome, last) ==
    IF outcome = "raise" THEN "raised"
    ELSE IF last THEN "finishing" ELSE "sending"

\* mutant of AfterSend: the first success ends the loop and the record is
\* written while channels are still to be contacted
AfterSend_first(outcome, last) ==
    IF outcome = "true" \/ last THEN "finishing" ELSE "sending"

\* mutant of AfterSend: a failed channel ends the loop
AfterSend_stop(outcome, last) ==
    IF outcome # "true" \/ last THEN "finishing" ELSE "sending"

\* send_notifications, lines 97-124: the try/except around a send keeps the
\* loop going whatever the channel did
AfterSend(outcome, last) == IF last THEN "finishing" ELSE "sending"

\* results[name] = success; an exception is recorded as False
SendResult(outcome) == outcome = "true"

\* mutant of AnySuccess: any attempted channel counts
AnySuccess_attempted(res) == DOMAIN res # {}

\* any(results.values())
AnySuccess(res) == \E k \in DOMAIN res : res[k]

\* mutant of _record_push: the record is never written
_record_push_skip(pw, files, today) == files

\* _record_push: writes only when the window and once-per-day are enabled
_record_push(pw, files, today) ==
    IF pw.ENABLED /\ pw.ONCE_PER_DAY
    THEN record_push(cleanup_old_records(files, today, pw.RECORD_RETENTION_DAYS),
                     today)
    ELSE files

Runs == {1}
EmptyMap == <<>>
NoSends == [k \in KeySet |-> 0]
NoOutcomes == [k \in KeySet |-> "none"]
NoBegin == [day |-> 0, in_range |-> FALSE, prior |-> FALSE]

\* START and END as configured: padded, unpadded, and an END out of range
WindowChoices ==
    { <<HHMM(9, 0), HHMM(18, 0)>>,
      <<<<9, Colon, 0, 0>>, HHMM(18, 0)>>,
      <<HHMM(9, 0), <<2, 5, Colon, 0, 0>>>> }

RetentionChoices == {0, 7}

\* which notifiers have credentials: none, one, two, three of the six
ConfiguredChoices ==
    {{}, {"feishu"}, {"dingtalk", "email"}, {"wework", "telegram", "ntfy"}}

DispatchInit ==
    /\ \E w \in WindowChoices, e \in BOOLEAN, o \in BOOLEAN,
          rd \in RetentionChoices :
          push_window = [ENABLED |-> e, ONCE_PER_DAY |-> o, START |-> w[1],
                         END |-> w[2], RECORD_RETENTION_DAYS |-> rd]
    /\ configured \in ConfiguredChoices
    /\ clock = [day |-> 0, tod |-> 1]
    /\ record_files = [d \in Days |-> Absent]
    /\ pc = [r \in Runs |-> "idle"]
    /\ enabled = [r \in Runs |-> <<>>]
    /\ idx = [r \in Runs |-> 0]
    /\ results = [r \in Runs |-> EmptyMap]
    /\ gate = [r \in Runs |-> "none"]
    /\ sends = [r \in Runs |-> NoSends]
    /\ outcomes = [r \in Runs |-> NoOutcomes]
    /\ begin = [r \in Runs |-> NoBegin]
    /\ calls = 0
    /\ succeeded_on = {}

\* send_notifications up to the loop: the gate check and the enabled notifiers
SendNotificationsBegin(r) ==
    /\ pc[r] = "idle"
    /\ calls < MaxCalls
    /\ LET chk == _check_push_window(push_window, record_files, clock.day, Now)
           en  == _get_enabled_notifiers(configured)
       IN  /\ record_files' = chk[2]
           /\ gate' = [gate EXCEPT ![r] = IF chk[1] THEN "permitted" ELSE "denied"]
           /\ pc' = [pc EXCEPT ![r] = AfterGate(chk[1], en)]
           /\ enabled' = [enabled EXCEPT ![r] = en]
    /\ idx' = [idx EXCEPT ![r] = 1]
    /\ begin' = [begin EXCEPT ![r] =
                    [day |-> clock.day,
                     in_range |-> is_in_time_range(push_window.START,
                                                   push_window.END, Now),
                     prior |-> clock.day \in succeeded_on]]
    /\ calls' = calls + 1
    /\ UNCHANGED <<push_window, configured, clock, results, sends, outcomes,
                   succeeded_on>>
    /\ UNCHANGED <<splitVars, mergeVars, rankVars, genVars, prepVars,
                   sweepVars, summaryVars,
                   recordVars, sendVars, runVars>>

\* one iteration of the loop over enabled_notifiers
SendToChannel(r) ==
    /\ pc[r] = "sending"
    /\ LET name == enabled[r][idx[r]] IN
       \E outcome \in SendOutcomes :
          /\ sends' = [sends EXCEPT ![r][name] = @ + 1]
          /\ outcomes' = [outcomes EXCEPT ![r][name] = outcome]
          /\ results' = [results EXCEPT ![r] = (name :> SendResult(outcome)) @@ @]
          /\ pc' = [pc EXCEPT ![r] = AfterSend(outcome, idx[r] = Len(enabled[r]))]
    /\ idx' = [idx EXCEPT ![r] = @ + 1]
    /\ UNCHANGED <<push_window, configured, clock, record_files, enabled, gate,
                   begin, calls, succeeded_on>>
    /\ UNCHANGED <<splitVars, mergeVars, rankVars, genVars, prepVars,
                   sweepVars, summaryVars,
                   recordVars, sendVars, runVars>>

\* send_notifications after the loop: record the push, print, return
SendNotificationsEnd(r) ==
    /\ pc[r] = "finishing"
    /\ record_files' = IF AnySuccess(results[r])
                       THEN _record_push(push_window, record_files, clock.day)
                       ELSE record_files
    /\ pc' = [pc EXCEPT ![r] = "returned"]
    /\ succeeded_on' =
          IF (\E k \in KeySet : outcomes[r][k] = "true") /\ begin[r].day = clock.day
          THEN succeeded_on \cup {clock.day} ELSE succeeded_on
    /\ UNCHANGED <<push_window, configured, clock, enabled, idx, results, gate,
                   sends, outcomes, begin, calls>>
    /\ UNCHANGED <<splitVars, mergeVars, rankVars, genVars, prepVars,
                   sweepVars, summaryVars,
                   recordVars, sendVars, runVars>>

\* the caller takes the result and the call's locals are gone; the next call
\* can start
NextCall(r) ==
    /\ pc[r] = "returned"
    /\ pc' = [pc EXCEPT ![r] = "idle"]
    /\ enabled' = [enabled EXCEPT ![r] = <<>>]
    /\ idx' = [idx EXCEPT ![r] = 0]
    /\ results' = [results EXCEPT ![r] = EmptyMap]
    /\ gate' = [gate EXCEPT ![r] = "none"]
    /\ sends' = [sends EXCEPT ![r] = NoSends]
    /\ outcomes' = [outcomes EXCEPT ![r] = NoOutcomes]
    /\ begin' = [begin EXCEPT ![r] = NoBegin]
    /\ UNCHANGED <<push_window, configured, clock, record_files, calls,
                   succeeded_on>>
    /\ UNCHANGED <<splitVars, mergeVars, rankVars, genVars, prepVars,
                   sweepVars, summaryVars,
                   recordVars, sendVars, runVars>>

\* time passes
Tick ==
    /\ \/ /\ clock.tod < Len(ClockTimes)
          /\ clock' = [clock EXCEPT !.tod = @ + 1]
       \/ /\ clock.tod = Len(ClockTimes)
          /\ clock.day < MaxDay
          /\ clock' = [day |-> clock.day + 1, tod |-> 1]
    /\ UNCHANGED <<push_window, configured, record_files, pc, enabled, idx,
                   results, gate, sends, outcomes, begin, calls, succeeded_on>>
    /\ UNCHANGED <<splitVars, mergeVars, rankVars, genVars, prepVars,
                   sweepVars, summaryVars,
                   recordVars, sendVars, runVars>>

DispatchNext ==
    \/ \E r \in Runs : SendNotificationsBegin(r)
    \/ \E r \in Runs : SendToChannel(r)
    \/ \E r \in Runs : SendNotificationsEnd(r)
    \/ \E r \in Runs : NextCall(r)
    \/ Tick

(***************************************************************************)
(* NewsRanking: snapshot merge and increment detection                     *)
(* (src/src/core/ranking.py).  A parsed snapshot file is a dict            *)
(* {platform_id: {title: {ranks}}}, modelled as a function whose domain is *)
(* the set of its keys; a section without title lines is not in the dict.  *)
(* The time label of a file is its position in the sorted file list.  The  *)
(* url and mobileUrl fields are left out.                                  *)
(***************************************************************************)
EmptyDict == <<>>

SourceIds == {"zhihu", "weibo"}
SourceOrder == <<"zhihu", "weibo">>
MergeTitles == {"A", "B"}

Has(dict, key) == key \in DOMAIN dict

Put(dict, key, value) ==
    [k \in DOMAIN dict \cup {key} |-> IF k = key THEN value ELSE dict[k]]

\* the filter of read_all_today_titles and detect_latest_new_titles
FilterPlatforms(titles_by_id, cpi) ==
    IF ~cpi.given THEN titles_by_id
    ELSE [sid \in DOMAIN titles_by_id \cap cpi.ids |-> titles_by_id[sid]]

NewInfo(ranks, time_info) ==
    [first_time |-> time_info, last_time |-> time_info, count |-> 1,
     ranks |-> ranks]

\* mutant of MergedRanks: the ranks of the later snapshot replace the earlier
MergedRanks_replace(existing_ranks, ranks) == ranks

\* _process_source_data, line 240: merged_ranks = existing_ranks + ranks
MergedRanks(existing_ranks, ranks) == existing_ranks \o ranks

\* _process_source_data, lines 244-246: a title seen before
MergeInfo(info, merged_ranks, time_info) ==
    [info EXCEPT !.last_time = time_info, !.ranks = merged_ranks, !.count = @ + 1]

\* _process_source_data; acc is [all_results, title_info]
_process_source_data(source_id, title_data, time_info, acc) ==
    IF ~Has(acc.all_results, source_id)
    THEN [all_results |-> Put(acc.all_results, source_id,
                              [t \in DOMAIN title_data |->
                                  [ranks |-> title_data[t].ranks]]),
          title_info  |-> Put(acc.title_info, source_id,
                              [t \in DOMAIN title_data |->
                                  NewInfo(title_data[t].ranks, time_info)])]
    ELSE LET old  == acc.all_results[source_id]
             oldi == acc.title_info[source_id]
             all  == DOMAIN old \cup DOMAIN title_data
         IN  [all_results |->
                 Put(acc.all_results, source_id,
                     [t \in all |->
                         IF ~Has(title_data, t) THEN old[t]
                         ELSE IF ~Has(old, t) THEN [ranks |-> title_data[t].ranks]
                         ELSE [ranks |-> MergedRanks(old[t].ranks,
                                                     title_data[t].ranks)]]),
              title_info |->
                 Put(acc.title_info, source_id,
                     [t \in all |->
                         IF ~Has(title_data, t) THEN oldi[t]
                         ELSE IF ~Has(old, t)
                              THEN NewInfo(title_data[t].ranks, time_info)
                              ELSE MergeInfo(oldi[t],
                                             MergedRanks(old[t].ranks,
                                                         title_data[t].ranks),
                                             time_info)])]

\* read_all_today_titles, lines 176-180: the platforms of one file, in order
RECURSIVE ProcessSources(_, _, _, _)
ProcessSources(order, titles_by_id, time_info, acc) ==
    IF order = <<>> THEN acc
    ELSE ProcessSources(
             Tail(order), titles_by_id, time_info,
             IF Has(titles_by_id, Head(order))
             THEN _process_source_data(Head(order), titles_by_id[Head(order)],
                                       time_info, acc)
             ELSE acc)

\* mutant of detect_latest_new_titles' history: only the file before the last
HistoricalTitles_previous(files, cpi, source_id) ==
    LET f == FilterPlatforms(files[Len(files) - 1], cpi)
    IN  IF Has(f, source_id) THEN DOMAIN f[source_id] ELSE {}

\* detect_latest_new_titles, lines 286-303: historical_titles.get(source_id, set())
HistoricalTitles(files, cpi, source_id) ==
    UNION { LET f == FilterPlatforms(files[k], cpi)
            IN  IF Has(f, source_id) THEN DOMAIN f[source_id] ELSE {}
            : k \in 1..(Len(files) - 1) }

\* detect_latest_new_titles
detect_latest_new_titles(files, cpi) ==
    IF Len(files) < 2 THEN EmptyDict
    ELSE LET latest == FilterPlatforms(files[Len(files)], cpi)
             fresh(sid) == {t \in DOMAIN latest[sid] :
                               t \notin HistoricalTitles(files, cpi, sid)}
         IN  [sid \in {x \in DOMAIN latest : fresh(x) # {}} |->
                 [t \in fresh(sid) |-> latest[sid][t]]]

\* is_first_crawl_today: len(files) <= 1
is_first_crawl_today(files) == Len(files) <= 1

\* the records of a dict {platform_id: {title: ...}}
Records(dict) ==
    {rec \in SourceIds \X MergeTitles :
        Has(dict, rec[1]) /\ Has(dict[rec[1]], rec[2])}

\* mutant of _filter_current_batch: nothing is filtered
_filter_current_batch_all(res, info) == res

\* _filter_current_batch
_filter_current_batch(res, info) ==
    LET times == {info[rec[1]][rec[2]].last_time : rec \in Records(info)}
    IN  IF times = {} THEN res
        ELSE LET latest_time == CHOOSE x \in times : \A y \in times : x >= y
                 kept(sid) == {t \in DOMAIN res[sid] :
                                  /\ Has(info[sid], t)
                                  /\ info[sid][t].last_time = latest_time}
             IN  [sid \in {x \in DOMAIN res \cap DOMAIN info : kept(x) # {}}
                     |-> [t \in kept(sid) |-> res[sid][t]]]

\* mutant of IncrementalSource: every record is processed
IncrementalSource_all(res, detected, is_first_today) == res

\* _determine_processing_mode, lines 439-447: the source of incremental mode
IncrementalSource(res, detected, is_first_today) ==
    IF is_first_today THEN res
    ELSE IF detected # EmptyDict THEN detected ELSE EmptyDict

\* _determine_processing_mode
_determine_processing_mode(res, info, detected, mode, is_first_today) ==
    IF mode = "incremental"
    THEN [results_to_process |->
              IncrementalSource(res, detected, is_first_today),
          all_news_are_new |-> TRUE]
    ELSE IF mode = "current"
    THEN [results_to_process |->
              IF info # EmptyDict THEN _filter_current_batch(res, info)
              ELSE res,
          all_news_are_new |-> FALSE]
    ELSE [results_to_process |-> res, all_news_are_new |-> FALSE]

\* _process_title_for_stats, lines 610-616: is_new
IsNew(all_news_are_new, detected, source_id, title) ==
    IF all_news_are_new THEN TRUE
    ELSE IF detected # EmptyDict /\ Has(detected, source_id)
    THEN Has(detected[source_id], title)
    ELSE FALSE

Modes == {"daily", "current", "incremental"}

NotDetermined ==
    [given |-> FALSE, mode |-> "daily", results_to_process |-> EmptyDict,
     all_news_are_new |-> FALSE]

\* ---- the snapshot files, as parse_file_titles reads them
ZhihuSections ==
    { EmptyDict,
      [t \in {"A"} |-> [ranks |-> <<1>>]],
      [t \in {"A"} |-> [ranks |-> <<2>>]],
      [t \in {"B"} |-> [ranks |-> <<1>>]],
      [t \in {"A", "B"} |-> [ranks |-> IF t = "A" THEN <<1>> ELSE <<2>>]] }
WeiboSections == {EmptyDict, [t \in {"A"} |-> [ranks |-> <<1>>]]}

FileOf(z, w) ==
    [sid \in {x \in SourceIds : (x = "zhihu" /\ z # EmptyDict)
                                   \/ (x = "weibo" /\ w # EmptyDict)} |->
        IF sid = "zhihu" THEN z ELSE w]

SnapshotChoices == {FileOf(z, w) : z \in ZhihuSections, w \in WeiboSections}

FilterChoices ==
    {[given |-> FALSE, ids |-> {}], [given |-> TRUE, ids |-> {"zhihu"}]}

NoAcc == [all_results |-> EmptyDict, title_info |-> EmptyDict]
NotDetected == [given |-> FALSE, value |-> EmptyDict]

MergeInit ==
    /\ txt_files = <<>>
    /\ current_platform_ids \in FilterChoices
    /\ all_results = EmptyDict
    /\ title_info = EmptyDict
    /\ read_pos = 0
    /\ new_titles = NotDetected
    /\ processing = NotDetermined

\* a run leaves a new .txt file in the day's directory, given by what
\* parse_file_titles returns for it; the next run's results start empty
NewSnapshotFile ==
    /\ Len(txt_files) < MaxSnapshots
    /\ \E f \in SnapshotChoices : txt_files' = Append(txt_files, f)
    /\ all_results' = EmptyDict
    /\ title_info' = EmptyDict
    /\ read_pos' = 0
    /\ new_titles' = NotDetected
    /\ processing' = NotDetermined
    /\ UNCHANGED current_platform_ids
    /\ UNCHANGED <<splitVars, dispatchVars, rankVars, genVars, prepVars,
                   sweepVars, summaryVars,
                   recordVars, sendVars, runVars>>

\* read_all_today_titles: one iteration of the loop over the files
ReadFile ==
    /\ read_pos < Len(txt_files)
    /\ LET k   == read_pos + 1
           acc == ProcessSources(SourceOrder,
                                 FilterPlatforms(txt_files[k], current_platform_ids),
                                 k,
                                 [all_results |-> all_results,
                                  title_info |-> title_info])
       IN  /\ all_results' = acc.all_results
           /\ title_info' = acc.title_info
           /\ read_pos' = k
    /\ UNCHANGED <<txt_files, current_platform_ids, new_titles, processing>>
    /\ UNCHANGED <<splitVars, dispatchVars, rankVars, genVars, prepVars,
                   sweepVars, summaryVars,
                   recordVars, sendVars, runVars>>

DetectLatestNewTitles ==
    /\ ~new_titles.given
    /\ txt_files # <<>>
    /\ new_titles' = [given |-> TRUE,
                      value |-> detect_latest_new_titles(txt_files,
                                                         current_platform_ids)]
    /\ UNCHANGED <<txt_files, current_platform_ids, all_results, title_info,
                   read_pos, processing>>
    /\ UNCHANGED <<splitVars, dispatchVars, rankVars, genVars, prepVars,
                   sweepVars, summaryVars,
                   recordVars, sendVars, runVars>>

\* calculate_statistics, lines 363-368: the records to process, from the
\* results of read_all_today_titles and detect_latest_new_titles
DetermineProcessingMode ==
    /\ ~processing.given
    /\ new_titles.given
    /\ read_pos = Len(txt_files)
    /\ \E mode \in Modes :
          LET out == _determine_processing_mode(
                         all_results, title_info, new_titles.value, mode,
                         is_first_crawl_today(txt_files))
          IN  processing' =
                 [given |-> TRUE, mode |-> mode,
                  results_to_process |-> out.results_to_process,
                  all_news_are_new |-> out.all_news_are_new]
    /\ UNCHANGED <<txt_files, current_platform_ids, all_results, title_info,
                   read_pos, new_titles>>
    /\ UNCHANGED <<splitVars, dispatchVars, rankVars, genVars, prepVars,
                   sweepVars, summaryVars,
                   recordVars, sendVars, runVars>>

MergeNext ==
    NewSnapshotFile \/ ReadFile \/ DetectLatestNewTitles
        \/ DetermineProcessingMode

MergeQuiet ==
    /\ txt_files = <<>>
    /\ current_platform_ids = [given |-> FALSE, ids |-> {}]
    /\ all_results = EmptyDict
    /\ title_info = EmptyDict
    /\ read_pos = 0
    /\ new_titles = NotDetected
    /\ processing = NotDetermined

(***************************************************************************)
(* NewsFilter (src/src/core/filter.py) and the classification of           *)
(* NewsRanking.calculate_statistics (src/src/core/ranking.py).             *)
(*                                                                         *)
(* A word or a title is a sequence of characters.  The frequency file is   *)
(* given by its blank-line separated groups, each the sequence of its      *)
(* stripped non-empty lines.  The four characters of the key of the        *)
(* "all news" group are written "quan", "bu", "xin", "wen".                *)
(***************************************************************************)
Lower(c) == CASE c = "A" -> "a" [] c = "I" -> "i" [] c = "X" -> "x" [] OTHER -> c

\* str.lower()
LowerStr(str) == [i \in 1..Len(str) |-> Lower(str[i])]

\* word in title
Contains(word, title) ==
    \E i \in 0..(Len(title) - Len(word)) :
        SubSeq(title, i + 1, i + Len(word)) = word

\* " ".join(words)
RECURSIVE JoinSpace(_)
JoinSpace(words) ==
    IF words = <<>> THEN <<>>
    ELSE IF Len(words) = 1 THEN words[1]
    ELSE words[1] \o <<" ">> \o JoinSpace(Tail(words))

AllNewsKey == <<"quan", "bu", "xin", "wen">>

\* _load_frequency_words, lines 59-69: the words of one group by prefix
RECURSIVE ParseWords(_, _)
ParseWords(words, acc) ==
    IF words = <<>> THEN acc
    ELSE LET word == Head(words)
         IN  ParseWords(Tail(words),
                 IF Head(word) = "!"
                 THEN [acc EXCEPT !.filter = Append(@, Tail(word))]
                 ELSE IF Head(word) = "+"
                 THEN [acc EXCEPT !.required = Append(@, Tail(word))]
                 ELSE [acc EXCEPT !.normal = Append(@, word)])

\* _load_frequency_words, lines 52-83: the loop over the groups
RECURSIVE LoadGroups(_, _)
LoadGroups(groups, acc) ==
    IF groups = <<>> THEN acc
    ELSE LET p == ParseWords(Head(groups),
                      [required |-> <<>>, normal |-> <<>>, filter |-> <<>>])
             group_key == IF p.normal # <<>> THEN JoinSpace(p.normal)
                          ELSE JoinSpace(p.required)
         IN  LoadGroups(Tail(groups),
                 [word_groups |->
                      IF p.required # <<>> \/ p.normal # <<>>
                      THEN Append(acc.word_groups,
                                  [required |-> p.required, normal |-> p.normal,
                                   group_key |-> group_key])
                      ELSE acc.word_groups,
                  filter_words |-> acc.filter_words \o p.filter])

_load_frequency_words(groups) ==
    LoadGroups(groups, [word_groups |-> <<>>, filter_words |-> <<>>])

\* the test of one group's terms, filter.py lines 112-128 and ranking.py
\* lines 552-566: every required word, and a normal word if there is any
TermsMatch(group, title_lower) ==
    /\ group.required # <<>> =>
          \A i \in 1..Len(group.required) :
              Contains(LowerStr(group.required[i]), title_lower)
    /\ group.normal # <<>> =>
          \E i \in 1..Len(group.normal) :
              Contains(LowerStr(group.normal[i]), title_lower)

\* NewsFilter.matches
matches(title, wg, fw) ==
    IF wg = <<>> THEN TRUE
    ELSE LET title_lower == LowerStr(title)
         IN  IF \E i \in 1..Len(fw) : Contains(LowerStr(fw[i]), title_lower)
             THEN FALSE
             ELSE \E g \in 1..Len(wg) : TermsMatch(wg[g], title_lower)

\* _process_title_for_stats, lines 548-569: whether the loop stops at a group
GroupMatched(group, title_lower) ==
    IF group.group_key = AllNewsKey THEN TRUE
    ELSE TermsMatch(group, title_lower)

Lowest(S) == CHOOSE x \in S : \A y \in S : x <= y

\* the data of a record of results_to_process: every record of the
\* classification has one rank and no entry in title_info
SourceRanks == <<1>>

\* _process_title_for_stats, lines 576-629: the entry appended for a record
\* (count_info is 1 and ranks are the record's own without title_info)
StatsEntry(source_id, title) ==
    [source_id |-> source_id, title |-> title, ranks |-> SourceRanks,
     count |-> 1]

\* mutant of _process_title_for_stats: the record is listed under every
\* group it matches, the loop is not left after the first
_process_title_for_stats_all(title, source_id, groups, ws, processed) ==
    LET title_lower == LowerStr(title)
        hits == {g \in 1..Len(groups) : GroupMatched(groups[g], title_lower)}
        keys == {groups[g].group_key : g \in hits}
    IN  [word_stats |->
            [k \in DOMAIN ws |->
                IF k \in keys
                THEN [count |-> ws[k].count + 1,
                      titles |-> Append(ws[k].titles,
                                        StatsEntry(source_id, title))]
                ELSE ws[k]],
         processed_titles |->
            IF hits = {} THEN processed
            ELSE processed \cup {<<source_id, title>>}]

\* _process_title_for_stats: the record goes to the first group the loop
\* stops at, under that group's key.  titles holds the appended entries in
\* the order of all_titles of _generate_statistics (the per-platform lists
\* one after the other: the records of a platform are processed together).
_process_title_for_stats(title, source_id, groups, ws, processed) ==
    LET title_lower == LowerStr(title)
        hits == {g \in 1..Len(groups) : GroupMatched(groups[g], title_lower)}
    IN  IF hits = {} THEN [word_stats |-> ws, processed_titles |-> processed]
        ELSE LET group_key == groups[Lowest(hits)].group_key
             IN  [word_stats |->
                      [ws EXCEPT ![group_key] =
                          [count |-> @.count + 1,
                           titles |-> Append(@.titles,
                                            StatsEntry(source_id, title))]],
                  processed_titles |-> processed \cup {<<source_id, title>>}]

\* the keys of word_stats in insertion order
RECURSIVE KeyOrder(_, _)
KeyOrder(groups, seen) ==
    IF groups = <<>> THEN seen
    ELSE KeyOrder(Tail(groups),
                  IF \E i \in 1..Len(seen) : seen[i] = Head(groups).group_key
                  THEN seen ELSE Append(seen, Head(groups).group_key))

\* list.sort(key = count, reverse = True): stable
RECURSIVE SortByCount(_)
SortByCount(list) ==
    IF list = <<>> THEN <<>>
    ELSE LET rest == SortByCount(Tail(list))
             above == {i \in 1..Len(rest) : rest[i].count > Head(list).count}
             n == Cardinality(above)
         IN  SubSeq(rest, 1, n) \o <<Head(list)>> \o SubSeq(rest, n + 1, Len(rest))

\* the default weights in tenths (0.6, 0.3, 0.1)
RankWeight == 6
FrequencyWeight == 3
HotnessWeight == 1

\* mutant of RankScore: the rank itself is the score
RankScore_raw(rank) == rank

\* _calculate_weight, line 774: score = 11 - min(rank, 10)
RankScore(rank) == 11 - (IF rank < 10 THEN rank ELSE 10)

RECURSIVE SumScores(_)
SumScores(ranks) ==
    IF ranks = <<>> THEN 0 ELSE RankScore(Head(ranks)) + SumScores(Tail(ranks))

\* _calculate_weight.  The weight is the fraction num / den:
\*   rank_weight_value      = SumScores / n
\*   frequency_weight_value = min(count, 10) * 10
\*   hotness_weight_value   = high / n * 100
\* and den = 10 * n carries the tenths of the three coefficients.
_calculate_weight(title_data, rank_threshold) ==
    IF title_data.ranks = <<>> THEN [num |-> 0, den |-> 1]
    ELSE LET ranks == title_data.ranks
             n == Len(ranks)
             frequency == (IF title_data.count < 10 THEN title_data.count
                           ELSE 10) * 10
             high == Cardinality({i \in 1..n : ranks[i] <= rank_threshold})
         IN  [num |-> RankWeight * SumScores(ranks)
                          + FrequencyWeight * frequency * n
                          + HotnessWeight * high * 100,
              den |-> 10 * n]

WeightLess(w1, w2) == w1.num * w2.den < w2.num * w1.den

\* min(x["ranks"]) if x["ranks"] else 999
MinRank(ranks) ==
    IF ranks = <<>> THEN 999 ELSE Lowest({ranks[i] : i \in 1..Len(ranks)})

\* mutant of SortsBefore: the weight alone is the key
SortsBefore_weight(x, y, rank_threshold) ==
    WeightLess(_calculate_weight(y, rank_threshold),
               _calculate_weight(x, rank_threshold))

\* the key (-weight, min rank, -count) of x is less than the key of y
SortsBefore(x, y, rank_threshold) ==
    LET wx == _calculate_weight(x, rank_threshold)
        wy == _calculate_weight(y, rank_threshold)
    IN  \/ WeightLess(wy, wx)
        \/ /\ ~WeightLess(wx, wy)
           /\ \/ MinRank(x.ranks) < MinRank(y.ranks)
              \/ /\ MinRank(x.ranks) = MinRank(y.ranks)
                 /\ x.count > y.count

\* sorted(all_titles, key = ...): stable
RECURSIVE SortTitles(_, _)
SortTitles(list, rank_threshold) ==
    IF list = <<>> THEN <<>>
    ELSE LET rest == SortTitles(Tail(list), rank_threshold)
             n == Cardinality({i \in 1..Len(rest) :
                                  SortsBefore(rest[i], Head(list), rank_threshold)})
         IN  SubSeq(rest, 1, n) \o <<Head(list)>> \o SubSeq(rest, n + 1, Len(rest))

\* round(a / b) for b > 0, a tie going to the even neighbour
RoundHalfEven(a, b) ==
    LET q == a \div b
        r == a % b
    IN  IF 2 * r < b THEN q
        ELSE IF 2 * r > b THEN q + 1
        ELSE IF q % 2 = 0 THEN q ELSE q + 1

\* mutant of Percentage: the digits after the second decimal are cut off
Percentage_cut(count, total_titles) ==
    IF total_titles > 0 THEN (count * 10000) \div total_titles ELSE 0

\* round(data["count"] / total_titles * 100, 2) if total_titles > 0 else 0,
\* in hundredths of a percent
Percentage(count, total_titles) ==
    IF total_titles > 0 THEN RoundHalfEven(count * 10000, total_titles) ELSE 0

\* _generate_statistics; keys is the insertion order of word_stats
_generate_statistics(ws, keys, total_titles, rank_threshold) ==
    SortByCount([i \in 1..Len(keys) |->
                    [word |-> keys[i], count |-> ws[keys[i]].count,
                     news_list |-> SortTitles(ws[keys[i]].titles,
                                              rank_threshold),
                     percentage |-> Percentage(ws[keys[i]].count,
                                               total_titles)]])

DefaultRankThreshold == 10

\* ---- the inputs
WordAi == <<"a", "i">>
WordAI == <<"A", "I">>
WordX == <<"x">>
RequiredX == <<"+", "x">>
FilterY == <<"!", "y">>

GroupChoices ==
    { <<WordAi>>, <<RequiredX, WordAI>>, <<AllNewsKey>>, <<FilterY, WordX>>,
      <<RequiredX>>, <<FilterY>> }

FrequencyFileChoices == SeqsUpTo(GroupChoices, MaxWordGroups)

RankTitles == { <<"A", "i">>, <<"A", "I", " ", "X">>, <<"x", " ", "y">> }

RankRecords == SourceIds \X RankTitles

\* a dict of dicts: no record twice, a platform's records together
ResultChoices ==
    { rs \in SeqsUpTo(RankRecords, MaxRecords) :
        /\ \A i, j \in 1..Len(rs) : i # j => rs[i] # rs[j]
        /\ \A i, j, k \in 1..Len(rs) :
              (i < j /\ j < k /\ rs[i][1] = rs[k][1]) => rs[j][1] = rs[i][1] }

RankInit ==
    /\ frequency_words \in FrequencyFileChoices
    /\ word_groups = _load_frequency_words(frequency_words).word_groups
    /\ filter_words = _load_frequency_words(frequency_words).filter_words
    /\ results_to_process \in ResultChoices
    /\ stat_groups = <<>>
    /\ word_stats = EmptyDict
    /\ processed_titles = {}
    /\ rank_pos = 0
    /\ rank_pc = "idle"
    /\ statistics = <<>>

\* calculate_statistics, lines 355-384: the word groups (the group of all
\* news when none is configured) and the empty statistics
CalculateStatisticsBegin ==
    /\ rank_pc = "idle"
    /\ LET groups == IF word_groups = <<>>
                     THEN << [required |-> <<>>, normal |-> <<>>,
                              group_key |-> AllNewsKey] >>
                     ELSE word_groups
       IN  /\ stat_groups' = groups
           /\ word_stats' =
                 [k \in {groups[g].group_key : g \in 1..Len(groups)} |->
                     [count |-> 0, titles |-> <<>>]]
    /\ processed_titles' = {}
    /\ rank_pos' = 0
    /\ rank_pc' = "loop"
    /\ UNCHANGED <<frequency_words, word_groups, filter_words,
                   results_to_process, statistics>>
    /\ UNCHANGED <<splitVars, dispatchVars, mergeVars, genVars, prepVars,
                   sweepVars, summaryVars,
                   recordVars, sendVars, runVars>>

\* calculate_statistics, lines 387-412: one turn of the loop over the records
ProcessTitle ==
    /\ rank_pc = "loop"
    /\ rank_pos < Len(results_to_process)
    /\ LET source_id == results_to_process[rank_pos + 1][1]
           title == results_to_process[rank_pos + 1][2]
           out == _process_title_for_stats(title, source_id, stat_groups,
                                           word_stats, processed_titles)
       IN  IF \/ <<source_id, title>> \in processed_titles
              \/ ~matches(title, word_groups, filter_words)
           THEN UNCHANGED <<word_stats, processed_titles>>
           ELSE /\ word_stats' = out.word_stats
                /\ processed_titles' = out.processed_titles
    /\ rank_pos' = rank_pos + 1
    /\ UNCHANGED <<frequency_words, word_groups, filter_words,
                   results_to_process, stat_groups, rank_pc, statistics>>
    /\ UNCHANGED <<splitVars, dispatchVars, mergeVars, genVars, prepVars,
                   sweepVars, summaryVars,
                   recordVars, sendVars, runVars>>

\* calculate_statistics, lines 414-424: the statistics are generated
CalculateStatisticsEnd ==
    /\ rank_pc = "loop"
    /\ rank_pos = Len(results_to_process)
    /\ statistics' = _generate_statistics(word_stats, KeyOrder(stat_groups, <<>>),
                                         Len(results_to_process),
                                         DefaultRankThreshold)
    /\ rank_pc' = "done"
    /\ UNCHANGED <<frequency_words, word_groups, filter_words,
                   results_to_process, stat_groups, word_stats,
                   processed_titles, rank_pos>>
    /\ UNCHANGED <<splitVars, dispatchVars, mergeVars, genVars, prepVars,
                   sweepVars, summaryVars,
                   recordVars, sendVars, runVars>>

RankNext == CalculateStatisticsBegin \/ ProcessTitle \/ CalculateStatisticsEnd

RankQuiet ==
    /\ frequency_words = <<>>
    /\ word_groups = <<>>
    /\ filter_words = <<>>
    /\ results_to_process = <<>>
    /\ stat_groups = <<>>
    /\ word_stats = EmptyDict
    /\ processed_titles = {}
    /\ rank_pos = 0
    /\ rank_pc = "idle"
    /\ statistics = <<>>

(***************************************************************************)
(* NewsRanking._generate_statistics applied to a word_stats whose entries  *)
(* carry the ranks and counts that title_info supplies.                    *)
(***************************************************************************)
Ones(n) == [i \in 1..n |-> 1]

Entry(title, ranks) ==
    [source_id |-> "zhihu", title |-> title, ranks |-> ranks,
     count |-> Len(ranks)]

EntryChoices ==
    { Entry("T1", <<1>>), Entry("T2", <<12>>), Entry("T3", <<1, 3>>),
      Entry("T4", <<2, 2>>), Entry("T5", <<2, 3>>), Entry("T6", Ones(10)),
      Entry("T7", Ones(11)) }

ThresholdChoices == {2, DefaultRankThreshold}

\* the news of the first group: no record twice
TitlesChoices ==
    { list \in SeqsUpTo(EntryChoices, MaxNews) :
        \A i, j \in 1..Len(list) : i # j => list[i] # list[j] }

GenKeys == <<WordAi, WordX>>

GenInit ==
    /\ \E first \in TitlesChoices, second \in {<<>>, <<Entry("T2", <<12>>)>>} :
          /\ \A i \in 1..Len(first), j \in 1..Len(second) : first[i] # second[j]
          /\ gen_word_stats =
                [k \in {WordAi, WordX} |->
                    IF k = WordAi
                    THEN [count |-> Len(first), titles |-> first]
                    ELSE [count |-> Len(second), titles |-> second]]
    /\ gen_rank_threshold \in ThresholdChoices
    /\ gen_total_titles \in {0, 3}
    /\ gen_stats = <<>>
    /\ gen_pc = "input"

GenerateStatistics ==
    /\ gen_pc = "input"
    /\ gen_stats' = _generate_statistics(gen_word_stats, GenKeys,
                                         gen_total_titles, gen_rank_threshold)
    /\ gen_pc' = "done"
    /\ UNCHANGED <<gen_word_stats, gen_rank_threshold, gen_total_titles>>
    /\ UNCHANGED <<splitVars, dispatchVars, mergeVars, rankVars, prepVars,
                   sweepVars, summaryVars,
                   recordVars, sendVars, runVars>>

GenQuiet ==
    /\ gen_word_stats = EmptyDict
    /\ gen_rank_threshold = DefaultRankThreshold
    /\ gen_total_titles = 0
    /\ gen_stats = <<>>
    /\ gen_pc = "input"

(***************************************************************************)
(* NewsReporter.prepare_report_data (src/src/core/reporter.py).  The url   *)
(* fields are left out.                                                    *)
(***************************************************************************)
\* mutant of HideNewSection: the new-items section is never hidden
HideNewSection_never(mode) == FALSE

\* prepare_report_data, line 51: hide_new_section
HideNewSection(mode) == mode = "incremental"

\* prepare_report_data, lines 58-62: new_by_platform, in insertion order
RECURSIVE GroupByPlatformName(_, _)
GroupByPlatformName(list, acc) ==
    IF list = <<>> THEN acc
    ELSE LET news == Head(list)
             at == {g \in 1..Len(acc) : acc[g].platform_name = news.platform_name}
         IN  GroupByPlatformName(
                 Tail(list),
                 IF at = {}
                 THEN Append(acc, [platform_name |-> news.platform_name,
                                   news_list |-> <<news>>])
                 ELSE [acc EXCEPT ![CHOOSE g \in at : TRUE].news_list =
                                      Append(@, news)])

\* prepare_report_data, lines 67-77: the entry of a new record
NewTitleEntry(news) ==
    [title |-> news.title, source_name |-> news.platform_name, count |-> 1,
     ranks |-> <<news.rank>>, is_new |-> TRUE]

\* prepare_report_data, lines 64-85; news is the last record of the inner loop
NewTitlesOf(list) ==
    LET groups == GroupByPlatformName(list, <<>>)
    IN  [g \in 1..Len(groups) |->
            [source_id |-> groups[g].news_list[Len(groups[g].news_list)].platform,
             source_name |-> groups[g].platform_name,
             titles |-> [i \in 1..Len(groups[g].news_list) |->
                            NewTitleEntry(groups[g].news_list[i])]]]

\* prepare_report_data, lines 98-108: the entry of a record of a group
StatTitleEntry(news) ==
    [title |-> news.title, source_name |-> news.platform_name,
     count |-> news.count, ranks |-> news.all_ranks, is_new |-> news.is_new]

\* prepare_report_data, lines 88-115: the groups with count > 0
RECURSIVE ProcessedStats(_)
ProcessedStats(stat_list) ==
    IF stat_list = <<>> THEN <<>>
    ELSE LET stat == Head(stat_list)
         IN  (IF stat.count <= 0 THEN <<>>
              ELSE << [word |-> stat.word, count |-> stat.count,
                       percentage |-> stat.percentage,
                       titles |-> [i \in 1..Len(stat.news_list) |->
                                      StatTitleEntry(stat.news_list[i])]] >>)
             \o ProcessedStats(Tail(stat_list))

RECURSIVE SumTitles(_)
SumTitles(sources) ==
    IF sources = <<>> THEN 0
    ELSE Len(Head(sources).titles) + SumTitles(Tail(sources))

\* prepare_report_data
prepare_report_data(stat_list, failed, new_list, mode) ==
    LET processed_new_titles ==
            IF ~HideNewSection(mode) /\ new_list # <<>>
            THEN NewTitlesOf(new_list) ELSE <<>>
    IN  [stats |-> ProcessedStats(stat_list),
         new_titles |-> processed_new_titles,
         failed_ids |-> failed,
         total_new_count |-> SumTitles(processed_new_titles)]

\* ---- the inputs: the records of _convert_new_titles_to_news
NewsOf(title, platform_id, platform_name, rank) ==
    [title |-> title, platform |-> platform_id,
     platform_name |-> platform_name, rank |-> rank]

NewNewsChoices ==
    { NewsOf("A", "zhihu", "ZH", 1), NewsOf("B", "zhihu", "ZH", 2),
      NewsOf("A", "weibo", "WB", 1), NewsOf("C", "zhihu-daily", "ZH", 3) }

NewNewsListChoices ==
    { list \in SeqsUpTo(NewNewsChoices, MaxNewNews) :
        \A i, j \in 1..Len(list) : i # j => list[i] # list[j] }

StatNews ==
    [title |-> "A", platform_name |-> "ZH", count |-> 2,
     all_ranks |-> <<1, 2>>, is_new |-> FALSE]

PrepStatsChoices ==
    { <<>>,
      << [word |-> "w1", count |-> 0, percentage |-> 0, news_list |-> <<>>] >>,
      << [word |-> "w1", count |-> 1, percentage |-> 10000,
          news_list |-> <<StatNews>>],
         [word |-> "w2", count |-> 0, percentage |-> 0, news_list |-> <<>>] >> }

PrepInit ==
    /\ prep_stats \in PrepStatsChoices
    /\ prep_failed_ids \in {<<>>, <<"weibo">>}
    /\ new_news_list \in NewNewsListChoices
    /\ prep_mode \in Modes
    /\ prepared = EmptyDict
    /\ prep_pc = "input"

PrepareReportData ==
    /\ prep_pc = "input"
    /\ prepared' = prepare_report_data(prep_stats, prep_failed_ids,
                                       new_news_list, prep_mode)
    /\ prep_pc' = "done"
    /\ UNCHANGED <<prep_stats, prep_failed_ids, new_news_list, prep_mode>>
    /\ UNCHANGED <<splitVars, dispatchVars, mergeVars, rankVars, genVars,
                   sweepVars, summaryVars,
                   recordVars, sendVars, runVars>>

PrepQuiet ==
    /\ prep_stats = <<>>
    /\ prep_failed_ids = <<>>
    /\ new_news_list = <<>>
    /\ prep_mode = "daily"
    /\ prepared = EmptyDict
    /\ prep_pc = "input"

(***************************************************************************)
(* PushRecordManager.__init__ and cleanup_old_records on the names of the  *)
(* record files.  A name push_record_<date>.json is given by its date part,*)
(* a sequence of characters (digits 0..9, Letter).  Dates are those of the *)
(* years 2025 and 2026, which have no leap day.                            *)
(***************************************************************************)
DaysBeforeMonth == <<0, 31, 59, 90, 120, 151, 181, 212, 243, 273, 304, 334>>
DaysInMonth == <<31, 28, 31, 30, 31, 30, 31, 31, 30, 31, 30, 31>>

\* datetime.strptime(date_str, "%Y%m%d") of an eight character string:
\* [ok, ordinal], ok being FALSE for a ValueError
ParseDate(date_str) ==
    IF Len(date_str) # 8 \/ \E i \in 1..8 : ~IsDigit(date_str[i])
    THEN [ok |-> FALSE, ordinal |-> 0]
    ELSE LET year == DigitsValue(SubSeq(date_str, 1, 4), 0)
             month == DigitsValue(SubSeq(date_str, 5, 6), 0)
             day == DigitsValue(SubSeq(date_str, 7, 8), 0)
         IN  IF month \notin 1..12 THEN [ok |-> FALSE, ordinal |-> 0]
             ELSE IF day \notin 1..DaysInMonth[month]
             THEN [ok |-> FALSE, ordinal |-> 0]
             ELSE [ok |-> TRUE,
                   ordinal |-> 365 * (year - 2025) + DaysBeforeMonth[month] + day]

\* mutant of Expired: a file of exactly sweep_retention days is removed
Expired_atleast(days_diff, retention) == days_diff >= retention

\* cleanup_old_records, line 59: days_diff > self.retention_days
Expired(days_diff, retention) == days_diff > retention

\* cleanup_old_records on the names; a name that raises ValueError is skipped
CleanupRecordDir(dir, today, retention) ==
    {f \in dir :
        LET file_date == ParseDate(f)
        IN  ~file_date.ok
            \/ ~Expired(ParseDate(today).ordinal - file_date.ordinal, retention)}

\* ---- the inputs
DateOf(m1, m2, d1, d2) == <<2, 0, 2, 5, m1, m2, d1, d2>>

SweepToday == DateOf(0, 3, 1, 0)

RecordNameChoices ==
    { SweepToday, DateOf(0, 3, 0, 9), DateOf(0, 3, 0, 3), DateOf(0, 3, 0, 2),
      DateOf(0, 2, 2, 8), DateOf(0, 3, 1, 1), DateOf(0, 2, 3, 0),
      <<2, 0, 2, 5, 0, 3, 1, Letter>> }

RetentionSweepChoices == {0 - 1, 0, 7}

SweepInit ==
    /\ record_dir \in SUBSET RecordNameChoices
    /\ sweep_today = SweepToday
    /\ sweep_retention \in RetentionSweepChoices
    /\ swept_dir = {}
    /\ sweep_pc = "input"

\* PushRecordManager.__init__: ensure_record_dir, then cleanup_old_records
ConstructPushRecordManager ==
    /\ sweep_pc = "input"
    /\ swept_dir' = CleanupRecordDir(record_dir, sweep_today, sweep_retention)
    /\ sweep_pc' = "done"
    /\ UNCHANGED <<record_dir, sweep_today, sweep_retention>>
    /\ UNCHANGED <<splitVars, dispatchVars, mergeVars, rankVars, genVars,
                   prepVars, summaryVars, recordVars, sendVars, runVars>>

SweepQuiet ==
    /\ record_dir = {}
    /\ sweep_today = SweepToday
    /\ sweep_retention = 7
    /\ swept_dir = {}
    /\ sweep_pc = "input"

(***************************************************************************)
(* NewsReporter._save_summary_json.  A file on disk is                     *)
(*   [kind, type, has_batches, has_metadata, batches, metadata]            *)
(* kind: "missing", "unreadable" (open or read raises IOError), "not_utf8" *)
(* (the bytes are no UTF-8 text), "not_json" (text that is no JSON) or     *)
(* "json"; for "json", type is the type of the value ("object", "list"),   *)
(* and for an object the two has_ fields say which keys it holds.          *)
(***************************************************************************)
MaxBatches == 3

NoException == "none"

NoLastUpdate == 0 - 1

\* _init_summary_structure
_init_summary_structure ==
    [batches |-> <<>>,
     metadata |-> [total_batches |-> 0, total_news_count |-> 0,
                   last_update |-> NoLastUpdate]]

SummaryFileOf(kind, type, has_batches, has_metadata, data) ==
    [kind |-> kind, type |-> type, has_batches |-> has_batches,
     has_metadata |-> has_metadata, batches |-> data.batches,
     metadata |-> data.metadata]

\* what _atomic_write_json leaves on disk: json.dump into a temporary file
\* of the same directory, then os.replace
_atomic_write_json(data) == SummaryFileOf("json", "object", TRUE, TRUE, data)

\* _build_batch_data: the batch of the run-th call
BatchOf(run, total_titles) ==
    [batch_id |-> run, timestamp |-> run, total_news_count |-> total_titles]

RECURSIVE SumNewsCount(_)
SumNewsCount(batch_list) ==
    IF batch_list = <<>> THEN 0
    ELSE Head(batch_list).total_news_count + SumNewsCount(Tail(batch_list))

\* the exception of open + json.load on the file, or NoException
LoadRaises(file) ==
    CASE file.kind = "unreadable" -> "IOError"
      [] file.kind = "not_utf8" -> "UnicodeDecodeError"
      [] file.kind = "not_json" -> "JSONDecodeError"
      [] OTHER -> NoException

\* except (json.JSONDecodeError, IOError)
Caught(exception) == exception \in {"JSONDecodeError", "IOError"}

\* the exception of the statements that append the batch and update the
\* metadata of the loaded value, or NoException
UpdateRaises(file) ==
    IF file.type # "object" THEN "TypeError"
    ELSE IF ~file.has_batches THEN "KeyError"
    ELSE IF ~file.has_metadata THEN "KeyError"
    ELSE NoException

\* _save_summary_json: [raised, file], file being what is on disk afterwards
_save_summary_json(file, current_batch) ==
    LET reinitialize ==
            file.kind = "missing"
            \/ (LoadRaises(file) # NoException /\ Caught(LoadRaises(file)))
        summary_data ==
            IF reinitialize THEN _init_summary_structure
            ELSE [batches |-> file.batches, metadata |-> file.metadata]
        appended == Append(summary_data.batches, current_batch)
        updated ==
            [batches |-> appended,
             metadata |-> [total_batches |-> Len(appended),
                           total_news_count |-> SumNewsCount(appended),
                           last_update |-> current_batch.timestamp]]
    IN  IF reinitialize
        THEN [raised |-> NoException, file |-> _atomic_write_json(updated)]
        ELSE IF LoadRaises(file) # NoException
        THEN [raised |-> LoadRaises(file), file |-> file]
        ELSE IF UpdateRaises(file) # NoException
        THEN [raised |-> UpdateRaises(file), file |-> file]
        ELSE [raised |-> NoException, file |-> _atomic_write_json(updated)]

\* ---- the inputs
TotalTitlesChoices == {0, 1, 2, 5}

NoFile(kind) == SummaryFileOf(kind, "none", FALSE, FALSE, _init_summary_structure)

\* a file written by an earlier run of the day
EarlierSummary ==
    _save_summary_json(NoFile("missing"), BatchOf(0, 1)).file

SummaryFileChoices ==
    { NoFile("missing"), NoFile("unreadable"), NoFile("not_utf8"),
      NoFile("not_json"), EarlierSummary,
      SummaryFileOf("json", "object", FALSE, FALSE, _init_summary_structure),
      SummaryFileOf("json", "list", FALSE, FALSE, _init_summary_structure) }

SummaryInit ==
    /\ summary_file \in SummaryFileChoices
    /\ summary_before = summary_file
    /\ summary_batch = BatchOf(0, 0)
    /\ summary_raised = NoException
    /\ summary_runs = 0

\* one run of the program reaching generate_json_report
SaveSummaryJson(total_titles) ==
    /\ summary_runs < MaxBatches
    /\ LET current_batch == BatchOf(summary_runs + 1, total_titles)
           saved == _save_summary_json(summary_file, current_batch)
       IN  /\ summary_before' = summary_file
           /\ summary_batch' = current_batch
           /\ summary_file' = saved.file
           /\ summary_raised' = saved.raised
    /\ summary_runs' = summary_runs + 1
    /\ UNCHANGED <<splitVars, dispatchVars, mergeVars, rankVars, genVars,
                   prepVars, sweepVars, recordVars, sendVars, runVars>>

SummaryQuiet ==
    /\ summary_file = NoFile("missing")
    /\ summary_before = summary_file
    /\ summary_batch = BatchOf(0, 0)
    /\ summary_raised = NoException
    /\ summary_runs = 0

(***************************************************************************)
(* record_push and has_pushed_today of runs that overlap in time, step by  *)
(* step on the file of today.  open(record_file, "w") creates or truncates *)
(* the file; the record is small and reaches the file in one write when    *)
(* the with block closes it.                                               *)
(***************************************************************************)
MaxWriters == 2
MaxChecks == 2

Writers == 1..MaxWriters

Truncated == "truncated"

\* a file holding text that is no JSON, such as "invalid json{"
Corrupt == "corrupt"

NoRecord == "None"

\* record_push, line 103: open(record_file, "w", encoding="utf-8")
OpenForWriting(content) == Truncated

\* record_push, lines 103-104: json.dump and the close of the with block
DumpAndClose(content) == PushedRecord

\* open(record_file, "r") and json.load(f): [raises, record]; the load of
\* a text that is no JSON raises JSONDecodeError
LoadRecord(content) ==
    IF content = PushedRecord
    THEN [raises |-> NoException, record |-> PushedRecord]
    ELSE [raises |-> "JSONDecodeError", record |-> NoRecord]

\* mutant of CaughtReading: the handler is lost
CaughtReading_nothing(exception) == FALSE

\* "except Exception as e" of has_pushed_today and get_push_record
CaughtReading(exception) == TRUE

\* has_pushed_today, lines 79-85, on an existing file: [raised, value]
LoadPushed(content) ==
    LET loaded == LoadRecord(content)
    IN  IF loaded.raises = NoException
        THEN [raised |-> NoException, value |-> loaded.record = PushedRecord]
        ELSE IF CaughtReading(loaded.raises)
        THEN [raised |-> NoException, value |-> FALSE]
        ELSE [raised |-> loaded.raises, value |-> FALSE]

\* get_push_record: [raised, value]
get_push_record(content) ==
    IF content = Absent THEN [raised |-> NoException, value |-> NoRecord]
    ELSE LET loaded == LoadRecord(content)
         IN  IF loaded.raises = NoException
             THEN [raised |-> NoException, value |-> loaded.record]
             ELSE IF CaughtReading(loaded.raises)
             THEN [raised |-> NoException, value |-> NoRecord]
             ELSE [raised |-> loaded.raises, value |-> NoRecord]

RecordInit ==
    /\ today_record \in {Absent, PushedRecord, Corrupt}
    /\ writer_pc = [w \in Writers |-> "idle"]
    /\ check_pc = "idle"
    /\ check_started_pushed = FALSE
    /\ check_seen = Absent
    /\ check_result = FALSE
    /\ check_raised = NoException
    /\ checks = 0
    /\ got_seen = Absent
    /\ got_record = NoRecord
    /\ got_raised = NoException
    /\ gets = 0

\* record_push up to the open of the file
RecordPushOpen(w) ==
    /\ writer_pc[w] = "idle"
    /\ today_record' = OpenForWriting(today_record)
    /\ writer_pc' = [writer_pc EXCEPT ![w] = "opened"]
    /\ UNCHANGED <<checkVars, getVars>>
    /\ UNCHANGED <<splitVars, dispatchVars, mergeVars, rankVars, genVars,
                   prepVars, sweepVars, summaryVars, sendVars, runVars>>

\* record_push from json.dump to the end
RecordPushDump(w) ==
    /\ writer_pc[w] = "opened"
    /\ today_record' = DumpAndClose(today_record)
    /\ writer_pc' = [writer_pc EXCEPT ![w] = "done"]
    /\ UNCHANGED <<checkVars, getVars>>
    /\ UNCHANGED <<splitVars, dispatchVars, mergeVars, rankVars, genVars,
                   prepVars, sweepVars, summaryVars, sendVars, runVars>>

\* has_pushed_today up to record_file.exists()
HasPushedTodayExists ==
    /\ check_pc = "idle"
    /\ checks < MaxChecks
    /\ check_started_pushed' = (today_record = PushedRecord)
    /\ IF today_record = Absent
       THEN /\ check_seen' = Absent
            /\ check_result' = FALSE
            /\ check_raised' = NoException
            /\ checks' = checks + 1
            /\ UNCHANGED check_pc
       ELSE /\ check_pc' = "exists"
            /\ UNCHANGED <<check_seen, check_result, check_raised, checks>>
    /\ UNCHANGED <<today_record, writer_pc, getVars>>
    /\ UNCHANGED <<splitVars, dispatchVars, mergeVars, rankVars, genVars,
                   prepVars, sweepVars, summaryVars, sendVars, runVars>>

\* has_pushed_today from open(record_file, "r") to the return
HasPushedTodayLoad ==
    /\ check_pc = "exists"
    /\ check_seen' = today_record
    /\ check_result' = LoadPushed(today_record).value
    /\ check_raised' = LoadPushed(today_record).raised
    /\ check_pc' = "idle"
    /\ checks' = checks + 1
    /\ UNCHANGED <<today_record, writer_pc, check_started_pushed, getVars>>
    /\ UNCHANGED <<splitVars, dispatchVars, mergeVars, rankVars, genVars,
                   prepVars, sweepVars, summaryVars, sendVars, runVars>>

\* get_push_record, from the test of existence to the return
GetPushRecord ==
    /\ gets < MaxChecks
    /\ got_seen' = today_record
    /\ got_record' = get_push_record(today_record).value
    /\ got_raised' = get_push_record(today_record).raised
    /\ gets' = gets + 1
    /\ UNCHANGED <<today_record, writer_pc, checkVars>>
    /\ UNCHANGED <<splitVars, dispatchVars, mergeVars, rankVars, genVars,
                   prepVars, sweepVars, summaryVars, sendVars, runVars>>

RecordQuiet ==
    /\ today_record = Absent
    /\ writer_pc = [w \in Writers |-> "idle"]
    /\ check_pc = "idle"
    /\ check_started_pushed = FALSE
    /\ check_seen = Absent
    /\ check_result = FALSE
    /\ check_raised = NoException
    /\ checks = 0
    /\ got_seen = Absent
    /\ got_record = NoRecord
    /\ got_raised = NoException
    /\ gets = 0

(***************************************************************************)
(* One channel's send (src/src/notifiers/feishu.py, telegram.py) and what  *)
(* the manager does with its result.  requests.post is a blocking call:    *)
(* its start and its end are two steps.                                    *)
(***************************************************************************)
\* what a request can end with: HTTP 200 and an accepting body, HTTP 200 and
\* a refusing body, another HTTP status, an exception
PostOutcomes == {"ok", "refused", "http_error", "exception"}

\* all_success after a request: every branch but the accepted one clears it
AllSuccessAfter(so_far, outcome) == so_far /\ outcome = "ok"

\* mutant of NextMessage: a message that failed is sent again
NextMessage_retry(i, outcome) == IF outcome = "ok" THEN i + 1 ELSE i

\* "for i, batch_content in enumerate(batches, 1)": the index after message i
NextMessage(i, outcome) == i + 1

\* the push window of the dispatch: enabled, once per day, whole day
SendPushWindow ==
    [ENABLED |-> TRUE, ONCE_PER_DAY |-> TRUE, START |-> HHMM(0, 0),
     END |-> HHMM(23, 59), RECORD_RETENTION_DAYS |-> 7]

\* ---- the inputs
SendStatChoices ==
    { <<>>,
      <<[count |-> 0, bytes |-> 40]>>,
      <<[count |-> 4, bytes |-> 40]>>,
      <<[count |-> 4, bytes |-> 40], [count |-> 4, bytes |-> 40],
        [count |-> 4, bytes |-> 40]>>,
      <<[count |-> 4, bytes |-> 120], [count |-> 6, bytes |-> 120]>> }

SendInit ==
    /\ send_report \in [stats : SendStatChoices, new_titles : {0, 40},
                        failed_ids : {0}]
    /\ send_platform \in {"feishu", "telegram"}
    /\ send_update = NoUpdate
    /\ send_max_bytes \in {700}
    /\ send_msgs = <<>>
    /\ send_i = 0
    /\ send_started = <<>>
    /\ send_finished = <<>>
    /\ all_success = TRUE
    /\ send_result = "none"
    /\ send_record = Absent
    /\ send_pc = "idle"

\* send up to the loop: the splitter is called, all_success = True
NotifierSendBegin ==
    /\ send_pc = "idle"
    /\ send_msgs' = split_content_into_batches(send_report, send_platform,
                                               send_update, send_max_bytes)
    /\ send_i' = 1
    /\ all_success' = TRUE
    /\ send_pc' = "loop"
    /\ UNCHANGED <<send_report, send_platform, send_update, send_max_bytes,
                   send_started, send_finished, send_result, send_record>>
    /\ UNCHANGED <<splitVars, dispatchVars, mergeVars, rankVars, genVars,
                   prepVars, sweepVars, summaryVars, recordVars, runVars>>

\* the loop body up to requests.post for message i
PostStart ==
    /\ send_pc = "loop"
    /\ send_i <= Len(send_msgs)
    /\ send_started' = Append(send_started, send_i)
    /\ send_pc' = "posting"
    /\ UNCHANGED <<send_report, send_platform, send_update, send_max_bytes,
                   send_msgs, send_i, send_finished, all_success, send_result,
                   send_record>>
    /\ UNCHANGED <<splitVars, dispatchVars, mergeVars, rankVars, genVars,
                   prepVars, sweepVars, summaryVars, recordVars, runVars>>

\* requests.post returns or raises; the loop goes on
PostFinish(outcome) ==
    /\ send_pc = "posting"
    /\ send_finished' =
          Append(send_finished, [msg |-> send_i, outcome |-> outcome])
    /\ all_success' = AllSuccessAfter(all_success, outcome)
    /\ send_i' = NextMessage(send_i, outcome)
    /\ send_pc' = "loop"
    /\ UNCHANGED <<send_report, send_platform, send_update, send_max_bytes,
                   send_msgs, send_started, send_result, send_record>>
    /\ UNCHANGED <<splitVars, dispatchVars, mergeVars, rankVars, genVars,
                   prepVars, sweepVars, summaryVars, recordVars, runVars>>

\* return all_success
NotifierSendReturn ==
    /\ send_pc = "loop"
    /\ send_i > Len(send_msgs)
    /\ send_result' = IF all_success THEN "true" ELSE "false"
    /\ send_pc' = "returned"
    /\ UNCHANGED <<send_report, send_platform, send_update, send_max_bytes,
                   send_msgs, send_i, send_started, send_finished, all_success,
                   send_record>>
    /\ UNCHANGED <<splitVars, dispatchVars, mergeVars, rankVars, genVars,
                   prepVars, sweepVars, summaryVars, recordVars, runVars>>

\* send_notifications after the loop, the channel being the only one enabled:
\* results[name] = success, then _record_push if any(results.values())
ManagerRecordsPush ==
    /\ send_pc = "returned"
    /\ LET res == (send_platform :> SendResult(send_result))
           files == [d \in Days |-> send_record]
       IN  send_record' =
              IF AnySuccess(res)
              THEN _record_push(SendPushWindow, files, 0)[0]
              ELSE send_record
    /\ send_pc' = "done"
    /\ UNCHANGED <<send_report, send_platform, send_update, send_max_bytes,
                   send_msgs, send_i, send_started, send_finished, all_success,
                   send_result>>
    /\ UNCHANGED <<splitVars, dispatchVars, mergeVars, rankVars, genVars,
                   prepVars, sweepVars, summaryVars, recordVars, runVars>>

SendQuiet ==
    /\ send_report = [stats |-> <<>>, new_titles |-> 0, failed_ids |-> 0]
    /\ send_platform = "feishu"
    /\ send_update = NoUpdate
    /\ send_max_bytes = 700
    /\ send_msgs = <<>>
    /\ send_i = 0
    /\ send_started = <<>>
    /\ send_finished = <<>>
    /\ all_success = TRUE
    /\ send_result = "none"
    /\ send_record = Absent
    /\ send_pc = "idle"

(***************************************************************************)
(* Runs of the program that overlap: each is a process of its own with its *)
(* own NotificationManager; they share the configuration and the record     *)
(* directory.  One channel is configured.  A run's steps are the gate      *)
(* check, the channel's send and the writing of the record                 *)
(* (manager.py:78-128); nothing in the code holds a lock over them.        *)
(***************************************************************************)
MaxProcesses == 2

Processes == 1..MaxProcesses

RunChannels == <<"feishu">>

RunWindowChoices ==
    { [ENABLED |-> en, ONCE_PER_DAY |-> once, START |-> HHMM(9, 0),
       END |-> HHMM(18, 0), RECORD_RETENTION_DAYS |-> 7] :
          en \in BOOLEAN, once \in BOOLEAN }

RunInit ==
    /\ run_window \in RunWindowChoices
    /\ run_now \in {HHMM(8, 30), HHMM(9, 0)}
    /\ run_record \in FileContents
    /\ run_pc = [p \in Processes |-> "idle"]
    /\ run_results = [p \in Processes |-> EmptyMap]
    /\ run_contacted = {}

\* the record directory as a run finds it
RunFiles == [d \in Days |-> IF d = 0 THEN run_record ELSE Absent]

\* send_notifications up to the loop: the gate is consulted
RunCheckGate(p) ==
    /\ run_pc[p] = "idle"
    /\ LET checked == _check_push_window(run_window, RunFiles, 0, run_now)
       IN  /\ run_pc' = [run_pc EXCEPT ![p] = AfterGate(checked[1], RunChannels)]
           /\ run_record' = checked[2][0]
    /\ UNCHANGED <<run_window, run_now, run_results, run_contacted>>
    /\ UNCHANGED <<splitVars, dispatchVars, mergeVars, rankVars, genVars,
                   prepVars, sweepVars, summaryVars, recordVars, sendVars>>

\* the loop body: the channel's send is invoked and its result stored
RunSend(p, outcome) ==
    /\ run_pc[p] = "sending"
    /\ run_contacted' = run_contacted \cup {p}
    /\ run_results' =
          [run_results EXCEPT ![p] = (RunChannels[1] :> SendResult(outcome))]
    /\ run_pc' = [run_pc EXCEPT ![p] = AfterSend(outcome, TRUE)]
    /\ UNCHANGED <<run_window, run_now, run_record>>
    /\ UNCHANGED <<splitVars, dispatchVars, mergeVars, rankVars, genVars,
                   prepVars, sweepVars, summaryVars, recordVars, sendVars>>

\* after the loop: _record_push if any(results.values()), then return
RunRecordPush(p) ==
    /\ run_pc[p] = "finishing"
    /\ run_record' =
          IF AnySuccess(run_results[p])
          THEN _record_push(run_window, RunFiles, 0)[0]
          ELSE run_record
    /\ run_pc' = [run_pc EXCEPT ![p] = "returned"]
    /\ UNCHANGED <<run_window, run_now, run_results, run_contacted>>
    /\ UNCHANGED <<splitVars, dispatchVars, mergeVars, rankVars, genVars,
                   prepVars, sweepVars, summaryVars, recordVars, sendVars>>

RunQuiet ==
    /\ run_window = [ENABLED |-> FALSE, ONCE_PER_DAY |-> FALSE,
                     START |-> HHMM(9, 0), END |-> HHMM(18, 0),
                     RECORD_RETENTION_DAYS |-> 7]
    /\ run_now = HHMM(9, 0)
    /\ run_record = Absent
    /\ run_pc = [p \in Processes |-> "idle"]
    /\ run_results = [p \in Processes |-> EmptyMap]
    /\ run_contacted = {}

\* ---- the components that a specification leaves alone
SplitQuiet ==
    /\ report_data = [stats |-> <<>>, new_titles |-> 0, failed_ids |-> 0]
    /\ platform = "feishu"
    /\ update_info = NoLastUpdate
    /\ max_bytes = 0
    /\ batches = <<>>
    /\ split_pc = "input"

DispatchQuiet ==
    /\ push_window = [ENABLED |-> FALSE, ONCE_PER_DAY |-> FALSE,
                      START |-> HHMM(0, 0), END |-> HHMM(23, 59),
                      RECORD_RETENTION_DAYS |-> 7]
    /\ configured = {}
    /\ clock = [day |-> 0, tod |-> 1]
    /\ record_files = [d \in Days |-> Absent]
    /\ pc = [r \in Runs |-> "idle"]
    /\ enabled = [r \in Runs |-> <<>>]
    /\ idx = [r \in Runs |-> 0]
    /\ results = [r \in Runs |-> EmptyMap]
    /\ gate = [r \in Runs |-> "none"]
    /\ sends = [r \in Runs |-> NoSends]
    /\ outcomes = [r \in Runs |-> NoOutcomes]
    /\ begin = [r \in Runs |-> NoBegin]
    /\ calls = 0
    /\ succeeded_on = {}

\* the splitter applied to every input
SplitSpecInit ==
    SplitInit /\ DispatchQuiet /\ MergeQuiet /\ RankQuiet /\ GenQuiet /\ PrepQuiet
        /\ SweepQuiet /\ SummaryQuiet /\ RecordQuiet /\ SendQuiet /\ RunQuiet

SpecSplit == SplitSpecInit /\ [][Split]_vars

\* the dispatcher and the push gate: calls one after the other, time passing
Init == DispatchInit /\ SplitQuiet /\ MergeQuiet /\ RankQuiet /\ GenQuiet /\ PrepQuiet
        /\ SweepQuiet /\ SummaryQuiet /\ RecordQuiet /\ SendQuiet /\ RunQuiet

Spec == Init /\ [][DispatchNext]_vars

MergeSpecInit ==
    MergeInit /\ SplitQuiet /\ DispatchQuiet /\ RankQuiet /\ GenQuiet /\ PrepQuiet
        /\ SweepQuiet /\ SummaryQuiet /\ RecordQuiet /\ SendQuiet /\ RunQuiet

\* the day's snapshot files, their merge and the increment detection
SpecMerge == MergeSpecInit /\ [][MergeNext]_vars

RankSpecInit ==
    RankInit /\ SplitQuiet /\ DispatchQuiet /\ MergeQuiet /\ GenQuiet /\ PrepQuiet
        /\ SweepQuiet /\ SummaryQuiet /\ RecordQuiet /\ SendQuiet /\ RunQuiet

\* the keyword configuration and one call of calculate_statistics
SpecRank == RankSpecInit /\ [][RankNext]_vars

GenSpecInit ==
    GenInit /\ SplitQuiet /\ DispatchQuiet /\ MergeQuiet /\ RankQuiet
        /\ PrepQuiet
        /\ SweepQuiet /\ SummaryQuiet /\ RecordQuiet /\ SendQuiet /\ RunQuiet

\* the weights and the ordering of _generate_statistics
SpecGen == GenSpecInit /\ [][GenerateStatistics]_vars

PrepSpecInit ==
    PrepInit /\ SplitQuiet /\ DispatchQuiet /\ MergeQuiet /\ RankQuiet
        /\ GenQuiet /\ SweepQuiet /\ SummaryQuiet /\ RecordQuiet /\ SendQuiet /\ RunQuiet

\* the report data handed to the notifiers
SpecPrep == PrepSpecInit /\ [][PrepareReportData]_vars

SweepSpecInit ==
    SweepInit /\ SplitQuiet /\ DispatchQuiet /\ MergeQuiet /\ RankQuiet
        /\ GenQuiet /\ PrepQuiet /\ SummaryQuiet /\ RecordQuiet /\ SendQuiet /\ RunQuiet

\* the retention sweep of the record directory
SpecSweep == SweepSpecInit /\ [][ConstructPushRecordManager]_vars

SummarySpecInit ==
    SummaryInit /\ SplitQuiet /\ DispatchQuiet /\ MergeQuiet /\ RankQuiet
        /\ GenQuiet /\ PrepQuiet /\ SweepQuiet /\ RecordQuiet /\ SendQuiet /\ RunQuiet

SummaryNext == \E total_titles \in TotalTitlesChoices : SaveSummaryJson(total_titles)

\* successive runs appending to the cumulative report
SpecSummary == SummarySpecInit /\ [][SummaryNext]_vars

RecordSpecInit ==
    RecordInit /\ SplitQuiet /\ DispatchQuiet /\ MergeQuiet /\ RankQuiet
        /\ GenQuiet /\ PrepQuiet /\ SweepQuiet /\ SummaryQuiet /\ SendQuiet /\ RunQuiet

RecordNext ==
    \/ \E w \in Writers : RecordPushOpen(w)
    \/ \E w \in Writers : RecordPushDump(w)
    \/ HasPushedTodayExists
    \/ HasPushedTodayLoad
    \/ GetPushRecord

\* runs of the program that overlap on today's push record
SpecRecord == RecordSpecInit /\ [][RecordNext]_vars

SendSpecInit ==
    SendInit /\ SplitQuiet /\ DispatchQuiet /\ MergeQuiet /\ RankQuiet
        /\ GenQuiet /\ PrepQuiet /\ SweepQuiet /\ SummaryQuiet /\ RecordQuiet
        /\ RunQuiet

SendNext ==
    \/ NotifierSendBegin
    \/ PostStart
    \/ \E outcome \in PostOutcomes : PostFinish(outcome)
    \/ NotifierSendReturn
    \/ ManagerRecordsPush

\* one channel's send inside a dispatch
SpecSend == SendSpecInit /\ [][SendNext]_vars

RunSpecInit ==
    RunInit /\ SplitQuiet /\ DispatchQuiet /\ MergeQuiet /\ RankQuiet
        /\ GenQuiet /\ PrepQuiet /\ SweepQuiet /\ SummaryQuiet /\ RecordQuiet
        /\ SendQuiet

RunNext ==
    \/ \E p \in Processes : RunCheckGate(p)
    \/ \E p \in Processes : \E outcome \in SendOutcomes : RunSend(p, outcome)
    \/ \E p \in Processes : RunRecordPush(p)

\* overlapping runs of the program on one record directory
SpecRuns == RunSpecInit /\ [][RunNext]_vars

(***************************************************************************)
(* Claims about the splitter.                                              *)
(***************************************************************************)
BodyBytes(i) == SumBytes(batches[i])

WorkingBudget ==
    max_bytes - SumBytes(BuildFooter(update_info, platform)) - SafetyMargin

HeaderBytes == SumBytes(BuildHeader(report_data, platform))

\* every section that is rendered fits the working budget behind a header,
\* and the failed-platform section fits the safety margin
SectionsFit ==
    /\ \A i \in 1..Len(report_data.stats) :
           report_data.stats[i].count > 0
               => HeaderBytes + report_data.stats[i].bytes <= WorkingBudget
    /\ HeaderBytes + report_data.new_titles <= WorkingBudget
    /\ report_data.failed_ids <= SafetyMargin

RECURSIVE SectionsOf(_)
SectionsOf(text) ==
    IF text = <<>> THEN <<>>
    ELSE IF Head(text).kind \in {"header", "footer"}
         THEN SectionsOf(Tail(text))
         ELSE <<Head(text)>> \o SectionsOf(Tail(text))

RECURSIVE SectionsOfAll(_)
SectionsOfAll(bs) ==
    IF bs = <<>> THEN <<>> ELSE SectionsOf(Head(bs)) \o SectionsOfAll(Tail(bs))

RECURSIVE GroupSections(_, _)
GroupSections(stats, i) ==
    IF i > Len(stats) THEN <<>>
    ELSE (IF stats[i].count > 0
          THEN <<Part("stat", i, stats[i].bytes)>> ELSE <<>>)
             \o GroupSections(stats, i + 1)

ExpectedSections ==
    GroupSections(report_data.stats, 1)
        \o (IF report_data.new_titles > 0
            THEN <<Part("new", 0, report_data.new_titles)>> ELSE <<>>)
        \o (IF report_data.failed_ids > 0
            THEN <<Part("failed", 0, report_data.failed_ids)>> ELSE <<>>)

\* C2: reading the emitted messages in order and ignoring headers and
\* footers yields every non-empty group section in input order, then the
\* new-items section, then the failed-platform section, each exactly once
\* and each whole inside one message.
C2_SectionsOnceInOrder ==
    split_pc = "done" => SectionsOfAll(batches) = ExpectedSections

C2_Witness ==
    /\ split_pc = "done"
    /\ Len(batches) >= 3
    /\ \E i \in 1..Len(report_data.stats) : report_data.stats[i].count = 0
    /\ report_data.new_titles > 0
    /\ report_data.failed_ids > 0
    /\ Len(ExpectedSections) >= 4


(***************************************************************************)
(* Claims about the dispatcher and the push gate.                          *)
(***************************************************************************)
OncePerDay == push_window.ENABLED /\ push_window.ONCE_PER_DAY

\* a push record for the current day exists and says "pushed"
PushedToday == record_files[clock.day] = PushedRecord

SomeChannelSucceeded(r) == \E k \in KeySet : outcomes[r][k] = "true"

\* the step in which run r's dispatch ends after its loop over the channels
EndsDispatch(r) == pc[r] = "finishing" /\ pc'[r] = "returned"

C6_EveryConfiguredChannelAttemptedOnce ==
    \A r \in Runs :
        /\ pc[r] # "raised"
        /\ \A k \in KeySet : sends[r][k] <= 1
        /\ (pc[r] \in {"finishing", "returned"} /\ gate[r] = "permitted")
              => \A k \in KeySet :
                    IF k \in configured
                    THEN /\ sends[r][k] = 1
                         /\ k \in DOMAIN results[r]
                         /\ results[r][k] = (outcomes[r][k] = "true")
                    ELSE /\ sends[r][k] = 0
                         /\ k \notin DOMAIN results[r]

C6_Witness ==
    \E r \in Runs :
        /\ pc[r] = "returned"
        /\ gate[r] = "permitted"
        /\ Len(enabled[r]) = 3
        /\ outcomes[r][enabled[r][1]] = "raise"
        /\ outcomes[r][enabled[r][2]] = "false"
        /\ outcomes[r][enabled[r][3]] = "true"
        /\ results[r][enabled[r][1]] = FALSE
        /\ results[r][enabled[r][3]] = TRUE

C8_SuccessAlwaysRecorded ==
    [][\A r \in Runs :
          (EndsDispatch(r) /\ gate[r] = "permitted" /\ SomeChannelSucceeded(r))
              => PushedToday']_vars

\* C8 (amended): whenever a permitted dispatch ends with at least one channel
\* reporting success and the push window and once-per-day are both enabled,
\* a push record for the current day exists afterwards; with the window or
\* once-per-day disabled no record is written.
C8_SuccessRecordedWhenOncePerDay ==
    [][\A r \in Runs :
          (EndsDispatch(r) /\ gate[r] = "permitted" /\ SomeChannelSucceeded(r))
              => IF OncePerDay THEN PushedToday'
                 ELSE record_files' = record_files]_vars

C8_Witness ==
    \E r \in Runs :
        /\ pc[r] = "returned"
        /\ gate[r] = "permitted"
        /\ OncePerDay
        /\ SomeChannelSucceeded(r)
        /\ \E k \in KeySet : outcomes[r][k] \in {"false", "raise"}
        /\ PushedToday

Bucket(k, sid) ==
    IF Has(txt_files[k], sid) THEN DOMAIN txt_files[k][sid] ELSE {}

Admitted(sid) == ~current_platform_ids.given \/ sid \in current_platform_ids.ids

ReportedNew(sid, t) ==
    Has(new_titles.value, sid) /\ Has(new_titles.value[sid], t)

NewInLast(sid, t) ==
    /\ t \in Bucket(Len(txt_files), sid)
    /\ \A k \in 1..(Len(txt_files) - 1) : t \notin Bucket(k, sid)

\* C4 (as stated): with at least two snapshots, a title is reported for a
\* platform if and only if it is in the last snapshot's bucket for that
\* platform and in no earlier snapshot's bucket for that platform.
C4_NewIffOnlyInLast ==
    (new_titles.given /\ Len(txt_files) >= 2)
        => \A sid \in SourceIds, t \in MergeTitles :
              ReportedNew(sid, t) <=> NewInLast(sid, t)

\* C4 (amended): with at least two snapshots, a title is reported for a
\* platform if and only if the platform passes the platform filter
\* (current_platform_ids, every platform when none is given), the title is in
\* the last snapshot's bucket for that platform and in no earlier snapshot's
\* bucket for that platform; a title that appeared for that platform in any
\* snapshot before the last is never flagged new.
C4_NewIffOnlyInLastOfAdmittedPlatform ==
    (new_titles.given /\ Len(txt_files) >= 2)
        => \A sid \in SourceIds, t \in MergeTitles :
              /\ ReportedNew(sid, t) <=> (Admitted(sid) /\ NewInLast(sid, t))
              /\ (\E k \in 1..(Len(txt_files) - 1) : t \in Bucket(k, sid))
                    => ~ReportedNew(sid, t)

C4_Witness ==
    /\ new_titles.given
    /\ Len(txt_files) = 3
    /\ ReportedNew("zhihu", "B")
    /\ ~ReportedNew("zhihu", "A")
    /\ "A" \in Bucket(1, "zhihu") /\ "A" \notin Bucket(2, "zhihu")
    /\ "A" \in Bucket(3, "zhihu")

\* the snapshots folded so far that hold title t on platform sid
Holding(sid, t) == {k \in 1..read_pos : t \in Bucket(k, sid)}

SetMin(S) == CHOOSE x \in S : \A y \in S : x <= y
SetMax(S) == CHOOSE x \in S : \A y \in S : x >= y

RECURSIVE ObservedRanks(_, _, _)
ObservedRanks(sid, t, k) ==
    IF k > read_pos THEN <<>>
    ELSE (IF t \in Bucket(k, sid) THEN txt_files[k][sid][t].ranks ELSE <<>>)
             \o ObservedRanks(sid, t, k + 1)

\* C5: after folding the snapshots in time order, the records are those of
\* the titles seen on the merged platforms (none is removed by a later
\* snapshot), and every record has occurrence_count equal to the number of
\* snapshots holding the title on that platform, first_seen the label of the
\* earliest of them, last_seen the label of the latest, and ranks the
\* concatenation of the observed ranks in snapshot order, duplicates kept.
C5_RecordsAccumulateObservations ==
    \A sid \in SourceIds, t \in MergeTitles :
        LET seen == Holding(sid, t)
            kept == Has(title_info, sid) /\ Has(title_info[sid], t)
        IN  /\ kept <=> (Admitted(sid) /\ seen # {})
            /\ kept =>
                  /\ title_info[sid][t].count = Cardinality(seen)
                  /\ title_info[sid][t].first_time = SetMin(seen)
                  /\ title_info[sid][t].last_time = SetMax(seen)
                  /\ title_info[sid][t].ranks = ObservedRanks(sid, t, 1)
                  /\ all_results[sid][t].ranks = ObservedRanks(sid, t, 1)

C5_Witness ==
    /\ read_pos = 3
    /\ Has(title_info, "zhihu")
    /\ Has(title_info["zhihu"], "A") /\ Has(title_info["zhihu"], "B")
    /\ title_info["zhihu"]["A"].ranks = <<1, 2, 1>>
    /\ title_info["zhihu"]["A"].count = 3
    /\ title_info["zhihu"]["B"].first_time = 1
    /\ title_info["zhihu"]["B"].last_time = 1
    /\ Holding("zhihu", "B") = {1}


(***************************************************************************)
(* Claims about the classification into keyword groups.                    *)
(***************************************************************************)
\* the records the loop has considered and NewsFilter.matches accepted
Accepted ==
    { results_to_process[i] : i \in
        {j \in 1..rank_pos :
            matches(results_to_process[j][2], word_groups, filter_words)} }

\* how often a record is in the news list kept under a key
Listed(key, rec) ==
    Cardinality({i \in 1..Len(word_stats[key].titles) :
                    /\ word_stats[key].titles[i].source_id = rec[1]
                    /\ word_stats[key].titles[i].title = rec[2]})

\* the groups, in configuration order, whose terms the title matches
MatchingGroups(title) ==
    {g \in 1..Len(stat_groups) : TermsMatch(stat_groups[g], LowerStr(title))}

\* C10: every considered record that is not rejected is placed in exactly
\* one group, the first group in configuration order whose required terms
\* all occur in the title and whose normal terms (when it has any) include
\* one that occurs in the title; no record is in the news lists of two
\* groups, and none is in a group whose terms it does not match.
C10_PlacedInFirstMatchingGroupOnly ==
    rank_pc # "idle" =>
        \A rec \in Accepted :
            /\ MatchingGroups(rec[2]) # {}
            /\ LET first == stat_groups[Lowest(MatchingGroups(rec[2]))].group_key
               IN  /\ Listed(first, rec) = 1
                   /\ \A key \in DOMAIN word_stats :
                         key # first => Listed(key, rec) = 0
            /\ \A key \in DOMAIN word_stats :
                  Listed(key, rec) > 0 =>
                      \E g \in MatchingGroups(rec[2]) :
                          stat_groups[g].group_key = key


\* the exclude terms of the configuration that occur in the title
ExcludeHits(title) ==
    {i \in 1..Len(filter_words) :
        Contains(LowerStr(filter_words[i]), LowerStr(title))}

\* C11: a considered record whose title contains a configured exclude term
\* (case-insensitive substring) is counted in no group and is in no news
\* list, also when the configuration defines exclude terms and no group.
C11_ExcludedTitleInNoGroup ==
    rank_pc # "idle" =>
        \A i \in 1..rank_pos :
            ExcludeHits(results_to_process[i][2]) # {} =>
                \A key \in DOMAIN word_stats :
                    Listed(key, results_to_process[i]) = 0


(***************************************************************************)
(* Claims about the weight and the ordering of the statistics.             *)
(***************************************************************************)
\* the entries of the returned statistics
GenEntries ==
    UNION { {gen_stats[g].news_list[i] : i \in 1..Len(gen_stats[g].news_list)}
            : g \in 1..Len(gen_stats) }

\* the ranks of x are position by position at most those of y
UniformlyBetter(x, y) ==
    /\ x.count = y.count
    /\ Len(x.ranks) = Len(y.ranks)
    /\ \A i \in 1..Len(x.ranks) : x.ranks[i] <= y.ranks[i]

\* C12: for a fixed occurrence count and rank threshold, a rank list that is
\* position by position less than or equal to another of the same length
\* has a weight greater than or equal to the other's.
C12_WeightMonotonicInRanks ==
    gen_pc = "done" =>
        \A x, y \in GenEntries :
            UniformlyBetter(x, y) =>
                ~WeightLess(_calculate_weight(x, gen_rank_threshold),
                            _calculate_weight(y, gen_rank_threshold))

C12_Witness ==
    /\ gen_pc = "done"
    /\ \E x, y \in GenEntries :
          /\ UniformlyBetter(x, y)
          /\ x.ranks = <<2, 2>> /\ y.ranks = <<2, 3>>
          /\ WeightLess(_calculate_weight(y, gen_rank_threshold),
                        _calculate_weight(x, gen_rank_threshold))

\* x is not worse than y under (weight descending, minimum rank ascending,
\* occurrence count descending)
NotWorse(x, y) ==
    LET wx == _calculate_weight(x, gen_rank_threshold)
        wy == _calculate_weight(y, gen_rank_threshold)
    IN  \/ WeightLess(wy, wx)
        \/ /\ ~WeightLess(wx, wy)
           /\ \/ MinRank(x.ranks) < MinRank(y.ranks)
              \/ /\ MinRank(x.ranks) = MinRank(y.ranks)
                 /\ x.count >= y.count

\* C15: each group's news list is ordered by weight descending, then minimum
\* rank ascending, then occurrence count descending, the groups are ordered
\* by count descending, and of two adjacent records the earlier is not worse
\* than the later.
C15_StatisticsOrdered ==
    gen_pc = "done" =>
        /\ \A g \in 1..(Len(gen_stats) - 1) :
              gen_stats[g].count >= gen_stats[g + 1].count
        /\ \A g \in 1..Len(gen_stats) :
              \A i \in 1..(Len(gen_stats[g].news_list) - 1) :
                  NotWorse(gen_stats[g].news_list[i],
                           gen_stats[g].news_list[i + 1])

C15_Witness ==
    /\ gen_pc = "done"
    /\ gen_rank_threshold = DefaultRankThreshold
    /\ gen_word_stats[WordAi].titles = <<Entry("T4", <<2, 2>>), Entry("T3", <<1, 3>>)>>
    /\ gen_stats[1].news_list = <<Entry("T3", <<1, 3>>), Entry("T4", <<2, 2>>)>>


(***************************************************************************)
(* Claims about the records a mode considers.                              *)
(***************************************************************************)
Considered == Records(processing.results_to_process)

MergedRecords == Records(title_info)

LastSeen(rec) == title_info[rec[1]][rec[2]].last_time

\* C13: in current mode the records considered are exactly the merged
\* records whose last_seen is the maximum last_seen over all merged records;
\* a record last seen in an earlier snapshot is never considered.
C13_CurrentModeConsidersLatestBatch ==
    (processing.given /\ processing.mode = "current") =>
        Considered =
            {rec \in MergedRecords :
                \A other \in MergedRecords : LastSeen(other) <= LastSeen(rec)}

C13_Witness ==
    /\ processing.given /\ processing.mode = "current"
    /\ Len(txt_files) = 3
    /\ Considered = {<<"zhihu", "A">>}
    /\ <<"zhihu", "B">> \in MergedRecords
    /\ LastSeen(<<"zhihu", "B">>) = 2
    /\ LastSeen(<<"zhihu", "A">>) = 3

\* C14: in incremental mode, when the current snapshot is the day's first,
\* every merged record is considered and flagged new; otherwise exactly the
\* records of the detected new titles are considered, each flagged new.
C14_IncrementalModeConsidersNew ==
    (processing.given /\ processing.mode = "incremental") =>
        /\ Considered = IF Len(txt_files) <= 1 THEN MergedRecords
                        ELSE Records(new_titles.value)
        /\ \A rec \in Considered :
              IsNew(processing.all_news_are_new, new_titles.value,
                    rec[1], rec[2])

C14_Witness ==
    /\ processing.given /\ processing.mode = "incremental"
    /\ Len(txt_files) = 2
    /\ Considered = {<<"zhihu", "B">>}
    /\ <<"zhihu", "A">> \in MergedRecords


(***************************************************************************)
(* Claims about the report data.                                           *)
(***************************************************************************)
\* the places of the new-items section that hold the record
PlacesOf(news) ==
    {<<g, i>> \in (1..Len(prepared.new_titles)) \X (1..MaxNewNews + 1) :
        /\ i <= Len(prepared.new_titles[g].titles)
        /\ prepared.new_titles[g].titles[i].title = news.title
        /\ prepared.new_titles[g].titles[i].ranks = <<news.rank>>
        /\ prepared.new_titles[g].titles[i].source_name = news.platform_name}

\* C16: with mode incremental the new-items section is empty and
\* total_new_count is 0; with any other mode every input new record is
\* exactly once in the new-items section, under its platform display name
\* and marked new.
C16_NewItemsSection ==
    prep_pc = "done" =>
        IF prep_mode = "incremental"
        THEN prepared.new_titles = <<>> /\ prepared.total_new_count = 0
        ELSE \A k \in 1..Len(new_news_list) :
                /\ Cardinality(PlacesOf(new_news_list[k])) = 1
                /\ \A pl \in PlacesOf(new_news_list[k]) :
                      /\ prepared.new_titles[pl[1]].source_name =
                             new_news_list[k].platform_name
                      /\ prepared.new_titles[pl[1]].titles[pl[2]].is_new

C16_Witness ==
    /\ prep_pc = "done"
    /\ prep_mode = "daily"
    /\ Len(new_news_list) = 3
    /\ Len(prepared.new_titles) = 2
    /\ prepared.new_titles[1].source_name = "ZH"
    /\ Len(prepared.new_titles[1].titles) = 2
    /\ prepared.total_new_count = 3


(***************************************************************************)
(* Claims about the decision of the push gate.                             *)
(***************************************************************************)
\* a time of the form H:M with hour 0..23 and minute 0..59
WellFormedTime(t) ==
    LET parts == SplitColon(Strip(t), <<>>)
    IN  /\ Len(parts) = 2
        /\ IsInt(parts[1]) /\ IsInt(parts[2])
        /\ IntOf(parts[1]) \in 0..23 /\ IntOf(parts[2]) \in 0..59

\* minutes since midnight
MinuteOfDay(t) ==
    LET parts == SplitColon(Strip(t), <<>>)
    IN  60 * IntOf(parts[1]) + IntOf(parts[2])

WithinWindow ==
    /\ MinuteOfDay(push_window.START) <= MinuteOfDay(Now)
    /\ MinuteOfDay(Now) <= MinuteOfDay(push_window.END)

DaysBeforeToday ==
    [f \in {SweepToday, DateOf(0, 3, 0, 9), DateOf(0, 3, 0, 3),
            DateOf(0, 3, 0, 2), DateOf(0, 2, 2, 8), DateOf(0, 3, 1, 1)} |->
        CASE f = SweepToday -> 0
          [] f = DateOf(0, 3, 0, 9) -> 1
          [] f = DateOf(0, 3, 0, 3) -> 7
          [] f = DateOf(0, 3, 0, 2) -> 8
          [] f = DateOf(0, 2, 2, 8) -> 10
          [] f = DateOf(0, 3, 1, 1) -> 0 - 1]

DeletedExactlyExpired ==
    \A f \in record_dir :
        f \notin swept_dir <=>
            (f \in DOMAIN DaysBeforeToday /\ DaysBeforeToday[f] > sweep_retention)

\* C18 (as stated): the sweep deletes exactly the record files whose date
\* lies more than retention_days days before today; the files inside the
\* retention window, today's file and the files whose name is no date are
\* left in place.
C18_SweepDeletesExactlyExpired ==
    sweep_pc = "done" =>
        /\ swept_dir \subseteq record_dir
        /\ DeletedExactlyExpired
        /\ sweep_today \in record_dir => sweep_today \in swept_dir

\* C18 (amended): the sweep deletes exactly the record files whose date lies
\* more than retention_days days before today; the files whose name is no
\* date are left in place, and so are, when retention_days >= 0, today's
\* file and the files inside the retention window.
C18_SweepDeletesExactlyExpiredNonNegative ==
    sweep_pc = "done" =>
        /\ swept_dir \subseteq record_dir
        /\ DeletedExactlyExpired
        /\ \A f \in record_dir : f \notin DOMAIN DaysBeforeToday => f \in swept_dir
        /\ (sweep_retention >= 0 /\ sweep_today \in record_dir)
              => sweep_today \in swept_dir

C18_Witness ==
    /\ sweep_pc = "done"
    /\ sweep_retention = 7
    /\ record_dir = RecordNameChoices
    /\ swept_dir = RecordNameChoices \ {DateOf(0, 3, 0, 2), DateOf(0, 2, 2, 8)}


(***************************************************************************)
(* Claims about the cumulative report.                                     *)
(***************************************************************************)
\* the existing file holds the structure of the cumulative report
HoldsSummary(file) ==
    file.kind = "json" /\ file.type = "object" /\ file.has_batches
        /\ file.has_metadata

BatchesStored(file) == IF HoldsSummary(file) THEN file.batches ELSE <<>>

\* C19: writing the cumulative report never aborts the run because of the
\* existing file's content: a corrupt or unreadable file is replaced by a
\* structure holding exactly the current batch, otherwise the current batch
\* is appended after the existing batches, and metadata.total_batches equals
\* the number of batches stored.
C19_SummaryWriteNeverAborts ==
    summary_runs > 0 =>
        /\ summary_raised = NoException
        /\ HoldsSummary(summary_file)
        /\ summary_file.batches =
              Append(BatchesStored(summary_before), summary_batch)
        /\ summary_file.metadata.total_batches = Len(summary_file.batches)


(***************************************************************************)
(* Claims about the push record under overlapping runs.                    *)
(***************************************************************************)
\* C20: a gate check that runs concurrently with record_push meets either
\* the file as it was before the write or the complete new record, never a
\* partially written file, and so never answers that nothing was pushed
\* today when a complete record was on disk before the write.
C20_CheckNeverSeesWriteInProgress ==
    checks > 0 =>
        /\ check_seen # Truncated
        /\ (check_pc = "idle" /\ check_started_pushed) => check_result


(***************************************************************************)
(* Claims about the splitter: the three-group scenario.                    *)
(***************************************************************************)
\* three groups with titles, each rendered in 40 bytes, and nothing else
ThreeGroupsOf40 ==
    /\ Len(report_data.stats) = 3
    /\ \A i \in 1..3 :
           report_data.stats[i].count > 0 /\ report_data.stats[i].bytes = 40
    /\ report_data.new_titles = 0
    /\ report_data.failed_ids = 0

TwoThenOne ==
    /\ Len(batches) = 2
    /\ SectionsOf(batches[1]) = <<Part("stat", 1, 40), Part("stat", 2, 40)>>
    /\ SectionsOf(batches[2]) = <<Part("stat", 3, 40)>>

\* C21 (as stated): with max_bytes = 100 and three groups whose sections are
\* 40 bytes each, the splitter emits exactly 2 messages, the first holding
\* the first two groups and the second holding the third.
C21_TwoMessagesAtMaxBytes100 ==
    (split_pc = "done" /\ max_bytes = 100 /\ ThreeGroupsOf40) => TwoThenOne

\* C21 (amended): with three groups whose sections are 40 bytes each and a
\* working budget (max_bytes - footer - 500) that holds the header and two
\* sections but not three, the splitter emits exactly 2 messages, the first
\* holding the first two groups and the second holding the third.
C21_TwoMessagesWhenBudgetHoldsTwo ==
    (split_pc = "done" /\ ThreeGroupsOf40
        /\ HeaderBytes + 80 <= WorkingBudget
        /\ WorkingBudget < HeaderBytes + 120)
    => TwoThenOne

C21_Witness ==
    /\ split_pc = "done"
    /\ ThreeGroupsOf40
    /\ HeaderBytes + 80 <= WorkingBudget
    /\ WorkingBudget < HeaderBytes + 120
    /\ TwoThenOne


(***************************************************************************)
(* Claims about a push record that cannot be parsed.                       *)
(***************************************************************************)
Unparseable == {Corrupt, Truncated}

\* C22: when today's push-record file exists but its content cannot be
\* parsed, has_pushed_today returns false and get_push_record returns no
\* record, neither raises, and the gate's test of the record answers as for
\* a day without a record.
C22_UnparseableRecordIsNoRecord ==
    /\ (checks > 0 /\ check_seen \in Unparseable)
          => /\ check_result = FALSE
             /\ check_raised = NoException
             /\ has_pushed_today([d \in Days |-> check_seen], 0)
                   = has_pushed_today([d \in Days |-> Absent], 0)
    /\ (gets > 0 /\ got_seen \in Unparseable)
          => /\ got_record = NoRecord
             /\ got_raised = NoException

C22_Witness ==
    /\ checks > 0
    /\ check_seen = Corrupt
    /\ gets > 0
    /\ got_seen = Corrupt
    /\ got_record = NoRecord
    /\ ~check_result


(***************************************************************************)
(* Claims about the splitter: messages without a section.                  *)
(***************************************************************************)
\* C23: the splitter closes the current message before a section only when
\* that message already holds content beyond the header, so that no emitted
\* message consists of the header and the footer alone, also when the first
\* section by itself exceeds the working budget.
C23_NoMessageOfHeaderAndFooterAlone ==
    split_pc = "done" =>
        \A i \in 1..Len(batches) : SectionsOf(batches[i]) # <<>>


(***************************************************************************)
(* Claims about the order of the sends and the write of the push record.   *)
(***************************************************************************)
\* a push record of the day the dispatch began, or of a later day
RecordSinceBegin(r) ==
    \E d \in Days : d >= begin[r].day /\ record_files[d] = PushedRecord

EveryChannelKnown(r) ==
    \A i \in 1..Len(enabled[r]) :
        /\ sends[r][enabled[r][i]] = 1
        /\ outcomes[r][enabled[r][i]] # "none"

\* C24: within one dispatch the push record is written only after the result
\* of every configured channel is known, and no channel send starts after
\* the record has been written: while a send is still to come the record is
\* not there, and once it is there every channel has been attempted once.
C24_RecordWrittenAfterAllSends ==
    \A r \in Runs :
        /\ pc[r] \in {"sending", "finishing"} => ~RecordSinceBegin(r)
        /\ (gate[r] = "permitted" /\ RecordSinceBegin(r))
              => (pc[r] = "returned" /\ EveryChannelKnown(r))

C24_Witness ==
    \E r \in Runs :
        /\ pc[r] = "returned"
        /\ gate[r] = "permitted"
        /\ RecordSinceBegin(r)
        /\ Len(enabled[r]) >= 2
        /\ outcomes[r][enabled[r][1]] = "true"
        /\ outcomes[r][enabled[r][2]] = "false"


(***************************************************************************)
(* Claims about one channel's send.                                        *)
(***************************************************************************)
\* C25: within one channel's send the messages of the splitter are attempted
\* strictly in the splitter's order, message i+1 starting only after the
\* attempt for message i has finished, and each message is attempted exactly
\* once.
C25_MessagesInOrderOnce ==
    /\ Len(send_started) <= Len(send_msgs)
    /\ \A j \in 1..Len(send_started) : send_started[j] = j
    /\ \A j \in 1..Len(send_finished) : send_finished[j].msg = j
    /\ Len(send_started) - Len(send_finished) =
          (IF send_pc = "posting" THEN 1 ELSE 0)
    /\ send_pc \in {"returned", "done"}
          => /\ Len(send_started) = Len(send_msgs)
             /\ Len(send_finished) = Len(send_msgs)

C25_Witness ==
    /\ send_pc = "returned"
    /\ Len(send_msgs) = 2
    /\ send_finished[1].outcome = "http_error"
    /\ send_finished[2].outcome = "ok"


SomeMessageTransmitted ==
    \E j \in 1..Len(send_finished) : send_finished[j].outcome = "ok"

\* C29: a dispatch marks the day as pushed only if at least one message body
\* was transmitted to some channel; a report that the splitter turns into
\* zero messages does not make the channel report success and does not
\* write the push record.
C29_RecordOnlyAfterTransmission ==
    /\ send_result = "true" => SomeMessageTransmitted
    /\ send_record = PushedRecord => SomeMessageTransmitted


(***************************************************************************)
(* Claims about a malformed push window.                                   *)
(***************************************************************************)
\* C26: if the configured start or end of the window is malformed (not of
\* the form H:M with hour 0..23 and minute 0..59), the range comparison
\* fails and the gate denies the dispatch at every time of day.
C26_MalformedWindowDenies ==
    (push_window.ENABLED
        /\ ~(WellFormedTime(push_window.START)
                /\ WellFormedTime(push_window.END)))
    => \A r \in Runs : gate[r] # "permitted"


(***************************************************************************)
(* Claims about the percentage and the counts of calculate_statistics.     *)
(***************************************************************************)
\* the sum of the counts of all groups
RECURSIVE SumCounts(_)
SumCounts(stats) ==
    IF stats = <<>> THEN 0 ELSE Head(stats).count + SumCounts(Tail(stats))

\* p, in hundredths of a percent, is count / total rounded to two decimals:
\* no other multiple of 0.01 is nearer to the quotient
IsRounded(p, count, total) ==
    /\ 2 * (p * total - 10000 * count) <= total
    /\ 2 * (10000 * count - p * total) <= total

\* C27 (as stated): each group's percentage equals its count divided by the
\* total number of matched records (the sum of the counts of all groups),
\* with two-decimal rounding.
C27_PercentageOfMatched ==
    rank_pc = "done" =>
        \A i \in 1..Len(statistics) :
            SumCounts(statistics) > 0
                => IsRounded(statistics[i].percentage, statistics[i].count,
                             SumCounts(statistics))

\* C27 (amended): each group's percentage equals its count divided by the
\* number of considered titles (matched or not), times 100, with two-decimal
\* rounding, and is 0 when no title was considered.
C27_PercentageOfConsidered ==
    rank_pc = "done" =>
        \A i \in 1..Len(statistics) :
            IF Len(results_to_process) > 0
            THEN IsRounded(statistics[i].percentage, statistics[i].count,
                           Len(results_to_process))
            ELSE statistics[i].percentage = 0

C27_Witness ==
    /\ rank_pc = "done"
    /\ Len(results_to_process) = 3
    /\ \E i \in 1..Len(statistics) :
          statistics[i].count = 2 /\ statistics[i].percentage = 6667


\* C30: for every group returned by calculate_statistics, count equals the
\* length of the group's news list, and the sum of the counts over all
\* groups equals the number of considered titles for which
\* NewsFilter.matches is true.
C30_CountsAddUp ==
    rank_pc = "done" =>
        /\ \A i \in 1..Len(statistics) :
              statistics[i].count = Len(statistics[i].news_list)
        /\ SumCounts(statistics) = Cardinality(Accepted)

C30_Witness ==
    /\ rank_pc = "done"
    /\ Len(statistics) = 2
    /\ statistics[1].count = 2
    /\ statistics[2].count = 0
    /\ Len(results_to_process) = 3
    /\ Cardinality(Accepted) = 2


\* C28: with the push window and once-per-day enabled, at most one dispatch
\* of the day contacts the channels, also when two runs perform the gate
\* check before either writes the push record.  A dispatch whose sends all
\* failed leaves the day open by design, so the property is stated for
\* dispatches that reached a channel with success.
C28_AtMostOneRunContacts ==
    (/\ run_window.ENABLED
     /\ run_window.ONCE_PER_DAY
     /\ \A p \in run_contacted : AnySuccess(run_results[p]))
        => Cardinality(run_contacted) <= 1

====
